---- MODULE Spec2Model ----
(***************************************************************************)
(* Model of the signed-request protocol layer of xy-api:                   *)
(*   src/XianyuApis.py       cookie jar upkeep, hasLogin, get_token,       *)
(*                           get_item_info                                 *)
(*   src/utils/xianyu_utils.py  generate_sign                              *)
(*                                                                         *)
(* Strings are modelled as sequences of atoms (one atom per character or   *)
(* per fixed literal), so that split, join and substring tests are         *)
(* computed rather than assumed.  The MD5 digest is kept symbolic: the     *)
(* digest of a message m is the record [md5 |-> m].                        *)
(***************************************************************************)
EXTENDS Integers, Sequences, FiniteSets, TLC

\* ------------------------------------------------------------------ bounds
\* requests one call may send to its own endpoint: get_token has no limit
\* of its own, and is followed until it has sent this many and turns to
\* hasLogin once more
MaxSent == 4

\* ------------------------------------------------------- program constants
\* src/XianyuApis.py:141  `if retry_count >= 2` in get_token
TokenBudget == 2
\* a get_item_info that gives up one attempt early
ItemBudgetShort == 3 - 1
\* src/XianyuApis.py:206  `if retry_count >= 3` in get_item_info
ItemBudget == 3
\* a hasLogin that allows one more handshake
LoginBudgetLong == 2 + 1
\* src/XianyuApis.py:91   `if retry_count >= 2` in hasLogin
LoginBudget == 2

\* ------------------------------------------------------------ input sets
TokenCookie == "_m_h5_tk"
Names == {TokenCookie, "unb"}
\* the domains a response can set a cookie for: the site-wide domain
\* (Domain=goofish.com) and the answering host (no Domain attribute)
ServerDomains == {".goofish.com", "h5api.m.goofish.com"}
Domains == ServerDomains
\* the values a response can give a cookie: the site-wide domain rotates the
\* token between two values, the answering host sets one
ValuesOf(n, d) ==
    IF n # TokenCookie THEN {<<"7">>}
    ELSE IF d = ".goofish.com" THEN {<<"A", "_", "1">>, <<"B", "_", "2">>}
    ELSE {<<"B", "_", "2">>}
ServerCookies ==
    UNION {{[name |-> n, domain |-> d, value |-> v] : v \in ValuesOf(n, d)} :
               n \in Names, d \in ServerDomains}
DeviceIds == {"dev1"}
ItemIds == {"item1"}
\* what time.time() can read when an attempt is built, in milliseconds
ClockReadings == {1000, 1500}

\* ------------------------------------------------------- string helpers
\* s[1..n]
Take(s, n) == SubSeq(s, 1, n)

\* index of the first occurrence of atom c in s, Len(s)+1 when absent
RECURSIVE FirstIndex(_, _, _)
FirstIndex(s, c, i) ==
    IF i > Len(s) THEN Len(s) + 1
    ELSE IF s[i] = c THEN i
    ELSE FirstIndex(s, c, i + 1)

\* Python: s.split(c)[0]
SplitFirst(s, c) == Take(s, FirstIndex(s, c, 1) - 1)

\* Python: sub in s
Contains(sub, s) ==
    \E i \in 1..(Len(s) - Len(sub) + 1) : SubSeq(s, i, i + Len(sub) - 1) = sub

\* ------------------------------------------------------------ cookie jar
\* A jar is the sequence of its cookies in iteration order.  The jar keys
\* cookies by domain, then name: a cookie with a known (domain, name)
\* replaces the value in place, a new name of a known domain goes to the
\* end of that domain's group, a new domain goes to the end.
NamesOf(j) == {j[i].name : i \in 1..Len(j)}

IndexOfKey(j, c) ==
    {i \in 1..Len(j) : j[i].name = c.name /\ j[i].domain = c.domain}

LastOfDomain(j, d) ==
    LET S == {i \in 1..Len(j) : j[i].domain = d}
    IN  IF S = {} THEN 0 ELSE CHOOSE i \in S : \A k \in S : k <= i

set_cookie(j, c) ==
    IF IndexOfKey(j, c) # {}
    THEN [i \in 1..Len(j) |-> IF i \in IndexOfKey(j, c) THEN c ELSE j[i]]
    ELSE IF LastOfDomain(j, c.domain) = 0
    THEN Append(j, c)
    ELSE LET k == LastOfDomain(j, c.domain)
         IN  SubSeq(j, 1, k) \o <<c>> \o SubSeq(j, k + 1, Len(j))

\* the cookies of a response are put into the session's jar in header order
RECURSIVE extract_cookies(_, _)
extract_cookies(j, cs) ==
    IF cs = <<>> THEN j
    ELSE extract_cookies(set_cookie(j, Head(cs)), Tail(cs))

\* RequestsCookieJar.get(name, default): a second cookie of the same name
\* raises CookieConflictError; no cookie, or an empty value, gives default.
cookies_get(j, name, default) ==
    LET S == {i \in 1..Len(j) : j[i].name = name}
    IN  IF Cardinality(S) > 1
        THEN [raised |-> TRUE, value |-> default]
        ELSE IF S = {} THEN [raised |-> FALSE, value |-> default]
        ELSE LET v == j[CHOOSE i \in S : TRUE].value
             IN  [raised |-> FALSE, value |-> IF v = <<>> THEN default ELSE v]

\* a token lookup that forgets the split
current_token_unsplit(j) == cookies_get(j, TokenCookie, <<>>)
\* src/XianyuApis.py:172/231  cookies.get('_m_h5_tk', '').split('_')[0]
current_token(j) ==
    LET g == cookies_get(j, TokenCookie, <<>>)
    IN  [raised |-> g.raised, value |-> SplitFirst(g.value, "_")]

\* src/XianyuApis.py:41-48: walk the cookie list in reverse, keep the first
\* cookie seen of every name.  i is the position still to visit.
RECURSIVE DedupFrom(_, _, _, _)
DedupFrom(old, i, new_jar, added_cookies) ==
    IF i = 0 THEN new_jar
    ELSE IF old[i].name \notin added_cookies
    THEN DedupFrom(old, i - 1, set_cookie(new_jar, old[i]),
                   added_cookies \cup {old[i].name})
    ELSE DedupFrom(old, i - 1, new_jar, added_cookies)

\* a dedupe that forgets cookie_list.reverse() and keeps the oldest cookie
DedupedJarNoReverse(j) ==
    DedupFrom([i \in 1..Len(j) |-> j[Len(j) + 1 - i]], Len(j), <<>>, {})
DedupedJar(j) == DedupFrom(j, Len(j), <<>>, {})

\* src/XianyuApis.py:60  '; '.join(f"{cookie.name}={cookie.value}" ...)
RECURSIVE cookie_str(_)
cookie_str(j) ==
    IF j = <<>> THEN <<>>
    ELSE <<j[1].name, "=">> \o j[1].value
         \o (IF Len(j) > 1 THEN <<"; ">> ELSE <<>>) \o cookie_str(Tail(j))

\* src/XianyuApis.py:56-87  update_env_cookies on the session's jar j: the
\* string it builds for the COOKIES_STR line.  Whether the .env file is
\* there to take it is the operator's business; every failure is swallowed.
update_env_cookies(j) == cookie_str(j)

\* a dedupe that writes the .env file before it swaps the jar
clear_duplicate_cookies_early_save(j) ==
    [jar |-> DedupedJar(j), persisted |-> <<update_env_cookies(j)>>]
\* src/XianyuApis.py:32-54  clear_duplicate_cookies: the session's jar
\* afterwards and the strings update_env_cookies built, one per invocation
clear_duplicate_cookies(j) ==
    LET new_jar == DedupedJar(j)
    IN  [jar |-> new_jar, persisted |-> <<update_env_cookies(new_jar)>>]

\* ------------------------------------------------------------- signing
\* a generate_sign that leaves the timestamp out of the message
generate_sign_untimed(t, token, data) ==
    [md5 |-> token \o <<"&", "34839810", "&">> \o data]
\* src/utils/xianyu_utils.py:61-69
generate_sign(t, token, data) ==
    [md5 |-> token \o <<"&", t, "&", "34839810", "&">> \o data]

\* src/XianyuApis.py:155/213  str(int(time.time()) * 1000)
TimestampOf(nowMs) == (nowMs \div 1000) * 1000

\* src/XianyuApis.py:166
TokenData(device_id) ==
    <<"{\"appKey\":\"444e9908a51d1cb236a27862abc769c9\",\"deviceId\":\"",
      device_id, "\"}">>

\* src/XianyuApis.py:225
ItemData(item_id) == <<"{\"itemId\":\"", item_id, "\"}">>

\* ----------------------------------------------------------- responses
\* the atom "(call succeeded)" stands for the marker's Chinese words and
\* "(token expired)" for those of the platform's expiry message
SuccessMarker == <<"SUCCESS", "::", "(call succeeded)">>
RetEntries ==
    { SuccessMarker,
      <<"x", "SUCCESS", "::", "(call succeeded)", "y">>,
      <<"FAIL_SYS_TOKEN_EXOIRED", "::", "(token expired)">>,
      <<"SUCCESS", "::">> }
RetLists ==
    {<<>>} \cup {<<e>> : e \in RetEntries}
    \cup {<<<<"FAIL_SYS_TOKEN_EXOIRED", "::", "(token expired)">>, SuccessMarker>>}

\* kind: "transport_error" (post raises, nothing received), "notjson"
\* (response.json() raises), "list" (JSON that is no mapping), "mapping".
\* A mapping has ret absent, ret that cannot be iterated (null), or a list.
NoBody == [kind |-> "none", present |-> FALSE, iterable |-> FALSE, entries |-> <<>>]
Body(k, p, it, es) == [kind |-> k, present |-> p, iterable |-> it, entries |-> es]
Bodies ==
    { Body("transport_error", FALSE, FALSE, <<>>),
      Body("notjson", FALSE, FALSE, <<>>),
      Body("list", FALSE, FALSE, <<>>),
      Body("mapping", FALSE, FALSE, <<>>),
      Body("mapping", TRUE, FALSE, <<>>) }
    \cup { Body("mapping", TRUE, TRUE, es) : es \in RetLists }

\* Set-Cookie headers of a response: none, or one cookie
SetCookieHeaders == {<<>>} \cup {<<c>> : c \in ServerCookies}

\* a success test that looks for the word SUCCESS alone
HasSuccessWord(b) ==
    \E i \in 1..Len(b.entries) : Contains(<<"SUCCESS">>, b.entries[i])
\* src/XianyuApis.py:182-184 / 246-248
\*   ret_value = res_json.get('ret', []);  any(marker in ret for ret in ret_value)
HasSuccess(b) ==
    \E i \in 1..Len(b.entries) : Contains(SuccessMarker, b.entries[i])

\* How one attempt's response is classified by the try block
\* (src/XianyuApis.py:177-202 / 236-266).
Classify(b) ==
    IF b.kind \in {"transport_error", "notjson"} THEN "exception"
    ELSE IF b.kind # "mapping" THEN "notmapping"
    ELSE IF b.present /\ ~b.iterable THEN "exception"
    ELSE IF HasSuccess(b) THEN "success"
    ELSE "nomarker"

\* ------------------------------------------------------------------ state
VARIABLES
    jar,        \* session.cookies, in iteration order
    op,         \* the public method the caller is in: "none" when idle
    arg,        \* its device_id / item_id
    pc,         \* position of the running frame
    stack,      \* the running frame of get_token / get_item_info (last)
                \* and, below it, the frames that can still catch
    nextSite,   \* where the sleeping frame makes its recursive call
    lretry,     \* retry_count of the running hasLogin frame
    req,        \* the request in flight
    result,     \* what the call gave its caller
    sent,       \* requests this call sent to its own endpoint
    attempts,   \* attempts this call began (past the budget check)
    listedOnly, \* every attempt so far failed by marker, shape or exception
    lattempts,  \* handshake attempts of the running hasLogin cycle
    reauths,    \* hasLogin cycles this call entered
    lastRecv,   \* how the last response of this call was handled
    loginDedupes, \* dedupes made by hasLogin since that response
    lastDedupe, \* the clear_duplicate_cookies run of the last step, if any
    cancelled,  \* stop_session cancelled the owning task during this call
    fn,         \* the helper function under study, "none" for the client
    input,      \* its argument
    output,     \* what it gave back, once it ran
    srv,        \* the HTTP server: session registry, runners, tasks
    ctx,        \* the chat context store: messages, counts, items
    ai          \* the reply service: its Redis queues and listeners

\* the output of a helper function that has not run yet
NotRun == [ran |-> FALSE, raised |-> FALSE, err |-> "none", text |-> <<>>]

\* src/fastapi_server.py:29  active_sessions is keyed by the user id; an
\* entry without a "task" key has task 0, one without "xianyu" has FALSE
SessionIds == {"u1", "u2"}
NoEntry == [status |-> "absent", task |-> 0, xianyu |-> FALSE]
\* the request handled by the last step, and what it answered
NoCall == [op |-> "none", sid |-> "", item |-> "", status |-> "none",
           api |-> "none"]
\* the server after startup: no session, no runner, no handler in flight
NoServer ==
    [reg |-> [s \in SessionIds |-> NoEntry], runs |-> <<>>, stops |-> <<>>,
     last |-> NoCall]
\* src/context_manager.py:28-92  the tables after _init_db on a new file
ChatIds == {"c1", "c2"}
\* the item ids asked of the server
StoreIds == {"item1", "item2"}
\* what the last call of the store gave back
NoGot == [op |-> "none", chat |-> "", messages |-> <<>>, count |-> 0,
          system |-> FALSE]
NoContext ==
    [messages |-> {}, next_id |-> 1, clock |-> 0, added |-> <<>>,
     counts |-> [c \in ChatIds |-> 0], incs |-> [c \in ChatIds |-> 0],
     got |-> NoGot,
     items |-> [i \in StoreIds |-> "none"]]
\* src/ai_service.py:29-34  the service before run(): no listener yet.
\* customer[s] and response[s] are the Redis lists customer:message:{s}
\* and ai:response:{s}; popped[s] is every message blpop took from
\* customer[s], pushed[s] every reply rpush put on response[s], in order.
Sellers == {"s1", "s2"}
NoListener == [pc |-> "none", reply |-> <<>>]
NoService ==
    [running |-> FALSE,
     listener |-> [s \in Sellers |-> NoListener],
     customer |-> [s \in Sellers |-> <<>>],
     popped |-> [s \in Sellers |-> <<>>],
     pushed |-> [s \in Sellers |-> <<>>],
     queued |-> 0]
ServerOff == srv = NoServer /\ ctx = NoContext /\ ai = NoService

\* the variables the client's own steps leave alone
aux == <<cancelled, fn, input, output, srv, ctx, ai>>

vars == <<jar, op, arg, pc, stack, nextSite, lretry, req, result,
          sent, attempts, listedOnly, lattempts, reauths, lastRecv,
          loginDedupes, lastDedupe, cancelled, fn, input, output, srv, ctx, ai>>

\* what the server's and the store's steps leave alone
clientVars ==
    <<jar, op, arg, pc, stack, nextSite, lretry, req, result, sent, attempts,
      listedOnly, lattempts, reauths, lastRecv, loginDedupes, lastDedupe,
      cancelled, fn, input, output>>

NoReq ==
    [token |-> <<>>, t |-> 0, data |-> <<>>, builtAt |-> 0,
     sign |-> [md5 |-> <<>>]]
NoResult == [kind |-> "none", body |-> NoBody]
NoRecv == [outcome |-> "none", setCookie |-> FALSE, deduped |-> FALSE]
NoDedupe == [ran |-> FALSE, pre |-> <<>>, post |-> <<>>, persisted |-> <<>>]
DedupeOf(j) ==
    [ran |-> TRUE, pre |-> j, post |-> clear_duplicate_cookies(j).jar,
     persisted |-> clear_duplicate_cookies(j).persisted]

\* A frame is known by its retry_count.  Every recursive call is the
\* operand of a return, so a frame that makes it outside its try block
\* (lines 146, 202, 266) can neither catch what the callee raises nor
\* change what it returns: such a frame is dropped when it makes the call.
\* A frame that makes it inside its try block (lines 191, 197, 255, 261)
\* stays below the callee, where its except clause catches an exception.
Frame(rc) == [rc |-> rc]
Top(s) == s[Len(s)]
Front(s) == SubSeq(s, 1, Len(s) - 1)

\* src/XianyuApis.py:141 / 206
Budget(o) == IF o = "get_token" THEN TokenBudget ELSE ItemBudget
\* src/XianyuApis.py:166 / 225
DataVal(o, a) == IF o = "get_token" THEN TokenData(a) ELSE ItemData(a)

\* src/XianyuApis.py:12-30: a fresh session with an empty jar
FreshClient ==
    /\ jar = <<>>
    /\ op = "none" /\ arg = "" /\ pc = "idle"
    /\ stack = <<>> /\ nextSite = "none" /\ lretry = 0
    /\ req = NoReq /\ result = NoResult
    /\ sent = 0 /\ attempts = 0 /\ listedOnly = TRUE
    /\ lattempts = 0 /\ reauths = 0
    /\ lastRecv = NoRecv /\ loginDedupes = 0 /\ lastDedupe = NoDedupe
    /\ cancelled = FALSE

\* the client alone: no helper function is under study
Init ==
    /\ FreshClient
    /\ fn = "none" /\ input = <<>> /\ output = NotRun
    /\ ServerOff

\* the caller invokes a public method
Begin(o, a, startPc) ==
    /\ pc = "idle"
    /\ op' = o /\ arg' = a /\ pc' = startPc
    /\ stack' = IF o = "hasLogin" THEN <<>> ELSE <<Frame(0)>>
    /\ nextSite' = "none" /\ lretry' = 0
    /\ req' = NoReq /\ result' = NoResult
    /\ sent' = 0 /\ attempts' = 0 /\ listedOnly' = TRUE
    /\ lattempts' = 0 /\ reauths' = 0
    /\ lastRecv' = NoRecv /\ loginDedupes' = 0 /\ lastDedupe' = NoDedupe
    /\ UNCHANGED aux
    /\ UNCHANGED jar

CallGetToken == \E d \in DeviceIds : Begin("get_token", d, "entry")
CallGetItemInfo == \E i \in ItemIds : Begin("get_item_info", i, "entry")
CallHasLogin == Begin("hasLogin", "", "login_entry")

InOp == pc = "entry" /\ op \in {"get_token", "get_item_info"}

\* src/XianyuApis.py:152-178 / 210-241: build, derive the token, sign, send
BuildSignSend ==
    /\ InOp
    /\ Top(stack).rc < Budget(op)
    /\ ~current_token(jar).raised
    /\ sent < MaxSent
    /\ \E clock \in ClockReadings :
       LET t == TimestampOf(clock)
           token == current_token(jar).value
           data == DataVal(op, arg)
       IN  req' = [token |-> token, t |-> t, data |-> data, builtAt |-> clock,
                   sign |-> generate_sign(t, token, data)]
    /\ sent' = sent + 1
    /\ attempts' = attempts + 1
    /\ pc' = "sent"
    /\ lastDedupe' = NoDedupe
    /\ UNCHANGED aux
    /\ UNCHANGED <<jar, op, arg, stack, nextSite, lretry, result,
                   listedOnly, lattempts, reauths, lastRecv, loginDedupes>>

\* src/XianyuApis.py:172 / 231: the token lookup raises CookieConflictError
\* outside the frame's try block; the frame below, if any, catches it in
\* its except clause (lines 199-202 / 263-266), else the caller gets it
TokenLookupRaises ==
    /\ InOp
    /\ Top(stack).rc < Budget(op)
    /\ current_token(jar).raised
    /\ attempts' = attempts + 1
    /\ listedOnly' = FALSE
    /\ stack' = Front(stack)
    /\ IF Front(stack) = <<>>
       THEN /\ pc' = "raised" /\ nextSite' = "none"
            /\ result' = [kind |-> "raised", body |-> NoBody]
       ELSE /\ pc' = "backoff" /\ nextSite' = "handler"
            /\ result' = result
    /\ lastDedupe' = NoDedupe
    /\ UNCHANGED aux
    /\ UNCHANGED <<jar, op, arg, lretry, req, sent, lattempts,
                   reauths, lastRecv, loginDedupes>>

\* src/XianyuApis.py:206-208: get_item_info gives up with its error value
ItemBudgetExhausted ==
    /\ InOp /\ op = "get_item_info"
    /\ Top(stack).rc >= ItemBudget
    /\ result' = [kind |-> "error", body |-> NoBody]
    /\ stack' = <<>> /\ pc' = "done"
    /\ lastDedupe' = NoDedupe
    /\ UNCHANGED aux
    /\ UNCHANGED <<jar, op, arg, nextSite, lretry, req, sent,
                   attempts, listedOnly, lattempts, reauths, lastRecv,
                   loginDedupes>>

\* src/XianyuApis.py:141-144: get_token turns to hasLogin
TokenBudgetExhausted ==
    /\ InOp /\ op = "get_token"
    /\ Top(stack).rc >= TokenBudget
    /\ reauths' = reauths + 1
    /\ lretry' = 0 /\ lattempts' = 0
    /\ pc' = "login_entry"
    /\ lastDedupe' = NoDedupe
    /\ UNCHANGED aux
    /\ UNCHANGED <<jar, op, arg, stack, nextSite, req, result, sent,
                   attempts, listedOnly, lastRecv, loginDedupes>>

\* a failure handler that cleans the jar whether or not cookies came
ShouldDedupeAlways(out, cs) == out = "nomarker"
\* src/XianyuApis.py:184-189 / 248-253: the marker is missing and the
\* response has a Set-Cookie header
ShouldDedupe(out, cs) == out = "nomarker" /\ cs # <<>>

\* a recursive call that passes retry_count on unchanged
RecurseSameCount(s, site) ==
    (IF site = "try" THEN s ELSE Front(s)) \o <<Frame(Top(s).rc)>>
\* the frame's recursive call with retry_count + 1, made from `site`
Recurse(s, site) ==
    (IF site = "try" THEN s ELSE Front(s)) \o <<Frame(Top(s).rc + 1)>>

\* src/XianyuApis.py:178-202 / 237-266: the response arrives and is handled
Receive(b, cs) ==
    /\ pc = "sent"
    /\ b.kind = "transport_error" => cs = <<>>
    /\ LET j1 == extract_cookies(jar, cs)
           out == Classify(b)
           dedupe == ShouldDedupe(out, cs)
       IN  /\ jar' = IF dedupe THEN clear_duplicate_cookies(j1).jar ELSE j1
           /\ lastDedupe' = IF dedupe THEN DedupeOf(j1) ELSE NoDedupe
           /\ lastRecv' = [outcome |-> out, setCookie |-> cs # <<>>,
                           deduped |-> dedupe]
           /\ listedOnly' = (listedOnly /\ out # "success")
           /\ CASE out = "success" ->
                     /\ result' = [kind |-> "body", body |-> b]
                     /\ stack' = <<>> /\ pc' = "done" /\ nextSite' = "none"
                [] out = "nomarker" ->
                     /\ pc' = "backoff" /\ nextSite' = "try"
                     /\ UNCHANGED <<stack, result>>
                [] out = "notmapping" ->
                     /\ stack' = Recurse(stack, "try")
                     /\ pc' = "entry" /\ nextSite' = "none"
                     /\ UNCHANGED result
                [] out = "exception" ->
                     /\ pc' = "backoff" /\ nextSite' = "handler"
                     /\ UNCHANGED <<stack, result>>
    /\ loginDedupes' = 0
    /\ req' = NoReq
    /\ UNCHANGED aux
    /\ UNCHANGED <<op, arg, lretry, sent, attempts, lattempts, reauths>>

ReceiveSuccess ==
    \E b \in Bodies, cs \in SetCookieHeaders :
        Classify(b) = "success" /\ Receive(b, cs)
ReceiveNoMarker ==
    \E b \in Bodies, cs \in SetCookieHeaders :
        Classify(b) = "nomarker" /\ Receive(b, cs)
ReceiveNotMapping ==
    \E b \in Bodies, cs \in SetCookieHeaders :
        Classify(b) = "notmapping" /\ Receive(b, cs)
ReceiveException ==
    \E b \in Bodies, cs \in SetCookieHeaders :
        Classify(b) = "exception" /\ Receive(b, cs)

\* src/XianyuApis.py:190-191, 201-202, 254-255, 265-266: sleep, then recurse
Backoff ==
    /\ pc = "backoff"
    /\ stack' = Recurse(stack, nextSite)
    /\ pc' = "entry" /\ nextSite' = "none"
    /\ lastDedupe' = NoDedupe
    /\ UNCHANGED aux
    /\ UNCHANGED <<jar, op, arg, lretry, req, result, sent, attempts,
                   listedOnly, lattempts, reauths, lastRecv, loginDedupes>>

\* ------------------------------------------------------------- hasLogin
\* the cookies whose values hasLogin posts (src/XianyuApis.py:102-119)
LoginFieldNames == {"unb", "XSRF-TOKEN", "cookie2", "cna"}
LoginFieldsRaise(j) ==
    \E n \in LoginFieldNames : cookies_get(j, n, <<>>).raised

\* what the login-status endpoint answers: "success" is a mapping whose
\* content.success is true, "failure" one where it is not, "nondict" a
\* JSON value without .get
LoginAnswers == {"transport_error", "notjson", "nondict", "failure", "success"}

\* a handshake cycle is followed while the call may still send
Followed == op = "get_token" => sent < MaxSent

\* src/XianyuApis.py:91-93 reached from get_token, then 147-150: sys.exit(1)
LoginFailsFatal ==
    /\ pc = "login_entry" /\ Followed /\ op = "get_token"
    /\ lretry >= LoginBudget
    /\ pc' = "fatal"
    /\ result' = [kind |-> "exit", body |-> NoBody]
    /\ lastDedupe' = NoDedupe
    /\ UNCHANGED aux
    /\ UNCHANGED <<jar, op, arg, stack, nextSite, lretry, req, sent,
                   attempts, listedOnly, lattempts, reauths, lastRecv,
                   loginDedupes>>

\* src/XianyuApis.py:91-93 when the caller invoked hasLogin itself
LoginReturnsFalse ==
    /\ pc = "login_entry" /\ op = "hasLogin"
    /\ lretry >= LoginBudget
    /\ pc' = "done"
    /\ result' = [kind |-> "false", body |-> NoBody]
    /\ lastDedupe' = NoDedupe
    /\ UNCHANGED aux
    /\ UNCHANGED <<jar, op, arg, stack, nextSite, lretry, req, sent,
                   attempts, listedOnly, lattempts, reauths, lastRecv,
                   loginDedupes>>

\* src/XianyuApis.py:95-122: build the form and post it
LoginSend ==
    /\ pc = "login_entry" /\ Followed
    /\ lretry < LoginBudget
    /\ ~LoginFieldsRaise(jar)
    /\ lattempts' = lattempts + 1
    /\ pc' = "login_sent"
    /\ lastDedupe' = NoDedupe
    /\ UNCHANGED aux
    /\ UNCHANGED <<jar, op, arg, stack, nextSite, lretry, req, result,
                   sent, attempts, listedOnly, reauths, lastRecv,
                   loginDedupes>>

\* src/XianyuApis.py:102-119, 135-137: a cookie lookup raises inside the
\* try block, nothing is posted
LoginBuildRaises ==
    /\ pc = "login_entry" /\ Followed
    /\ lretry < LoginBudget
    /\ LoginFieldsRaise(jar)
    /\ lattempts' = lattempts + 1
    /\ pc' = "login_backoff"
    /\ lastDedupe' = NoDedupe
    /\ UNCHANGED aux
    /\ UNCHANGED <<jar, op, arg, stack, nextSite, lretry, req, result,
                   sent, attempts, listedOnly, reauths, lastRecv,
                   loginDedupes>>

\* src/XianyuApis.py:122-129, then 144-146 in get_token: the handshake
\* succeeded, cookies are cleaned, get_token starts over with retry_count 0
LoginSucceeds ==
    /\ pc = "login_sent"
    /\ \E cs \in SetCookieHeaders :
        LET j1 == extract_cookies(jar, cs)
        IN  /\ jar' = clear_duplicate_cookies(j1).jar
            /\ lastDedupe' = DedupeOf(j1)
    /\ loginDedupes' = loginDedupes + 1
    /\ IF op = "get_token"
       THEN /\ stack' = Front(stack) \o <<Frame(0)>>
            /\ pc' = "entry"
            /\ UNCHANGED result
       ELSE /\ pc' = "done"
            /\ result' = [kind |-> "true", body |-> NoBody]
            /\ UNCHANGED stack
    /\ UNCHANGED aux
    /\ UNCHANGED <<op, arg, nextSite, lretry, req, sent, attempts,
                   listedOnly, lattempts, reauths, lastRecv>>

\* src/XianyuApis.py:130-132, 135-137: the handshake failed
LoginFails ==
    /\ pc = "login_sent"
    /\ \E a \in LoginAnswers \ {"success"}, cs \in SetCookieHeaders :
        /\ a = "transport_error" => cs = <<>>
        /\ jar' = extract_cookies(jar, cs)
    /\ pc' = "login_backoff"
    /\ lastDedupe' = NoDedupe
    /\ UNCHANGED aux
    /\ UNCHANGED <<op, arg, stack, nextSite, lretry, req, result,
                   sent, attempts, listedOnly, lattempts, reauths, lastRecv,
                   loginDedupes>>

\* src/XianyuApis.py:132-133, 137-138: sleep, then hasLogin(retry_count + 1)
LoginBackoff ==
    /\ pc = "login_backoff"
    /\ lretry' = lretry + 1
    /\ pc' = "login_entry"
    /\ lastDedupe' = NoDedupe
    /\ UNCHANGED aux
    /\ UNCHANGED <<jar, op, arg, stack, nextSite, req, result, sent,
                   attempts, listedOnly, lattempts, reauths, lastRecv,
                   loginDedupes>>

\* the caller has its answer (a value or an exception) and goes on
Return ==
    /\ pc \in {"done", "raised"}
    /\ op' = "none" /\ arg' = "" /\ pc' = "idle"
    /\ stack' = <<>> /\ nextSite' = "none" /\ lretry' = 0
    /\ req' = NoReq /\ result' = NoResult
    /\ sent' = 0 /\ attempts' = 0 /\ listedOnly' = TRUE
    /\ lattempts' = 0 /\ reauths' = 0
    /\ lastRecv' = NoRecv /\ loginDedupes' = 0 /\ lastDedupe' = NoDedupe
    /\ cancelled' = FALSE
    /\ UNCHANGED <<jar, fn, input, output, srv, ctx, ai>>

Next ==
    \/ CallGetToken
    \/ CallGetItemInfo
    \/ CallHasLogin
    \/ BuildSignSend
    \/ TokenLookupRaises
    \/ ItemBudgetExhausted
    \/ TokenBudgetExhausted
    \/ ReceiveSuccess
    \/ ReceiveNoMarker
    \/ ReceiveNotMapping
    \/ ReceiveException
    \/ Backoff
    \/ LoginFailsFatal
    \/ LoginReturnsFalse
    \/ LoginSend
    \/ LoginBuildRaises
    \/ LoginSucceeds
    \/ LoginFails
    \/ LoginBackoff
    \/ Return

Spec == Init /\ [][Next]_vars

\* --------------------------------------------------------------- liveness
\* sent, attempts and reauths only count what a call did: no step of the
\* code reads them.  So that a call can be followed past the point where
\* the send count reaches its bound, the counts start over there.
ForgetCounts ==
    /\ pc \in {"entry", "login_entry"} /\ op = "get_token"
    /\ sent = MaxSent
    /\ sent' = 0 /\ attempts' = 0 /\ reauths' = 0
    /\ lastDedupe' = NoDedupe
    /\ UNCHANGED aux
    /\ UNCHANGED <<jar, op, arg, pc, stack, nextSite, lretry, req, result,
                   listedOnly, lattempts, lastRecv, loginDedupes>>

\* deepest stack of frames that is followed when a call is followed without
\* end: a frame that recurses inside its try block stays on the stack
MaxDepth == 1

\* a step of the code that would take the stack past that depth
TooDeep == pc = "backoff" /\ nextSite = "try" /\ Len(stack) >= MaxDepth

NextLive == (Next /\ Len(stack') <= MaxDepth) \/ ForgetCounts

\* the interpreter keeps running the call and both endpoints keep answering
SpecLive == Init /\ [][NextLive]_vars /\ WF_vars(NextLive)

\* ------------------------------------------------------------ cancellation
\* src/fastapi_server.py:207-209  stop_session calls task.cancel() on the
\* task that owns the client, here while a call of the client is waiting for
\* a response or sleeping before its next attempt.  cancel() asks for
\* CancelledError to be thrown at the task's next await; get_token and
\* get_item_info block in session.post and time.sleep, await nothing and
\* read no flag, so none of their steps depends on it.
stop_session ==
    /\ pc \in {"sent", "backoff"}
    /\ op \in {"get_token", "get_item_info"}
    /\ ~cancelled
    /\ cancelled' = TRUE
    /\ UNCHANGED <<jar, op, arg, pc, stack, nextSite, lretry, req, result,
                   sent, attempts, listedOnly, lattempts, reauths, lastRecv,
                   loginDedupes, lastDedupe, fn, input, output, srv, ctx, ai>>

NextCancel ==
    \/ Next
    \/ stop_session

SpecCancel == Init /\ [][NextCancel]_vars

\* ================================================================ decrypt
\* src/utils/xianyu_utils.py:72-335.  A bytes value is the sequence of its
\* bytes (0..255); a str is the sequence of the bytes of its UTF-8 form, so
\* an ASCII character is its code ("A" is 65, "=" is 61, "!" is 33).

\* ----------------------------------------------------------------- base64
\* the character of a 6-bit value in the alphabet A-Z a-z 0-9 + /
B64Char(v) ==
    IF v < 26 THEN 65 + v
    ELSE IF v < 52 THEN 97 + (v - 26)
    ELSE IF v < 62 THEN 48 + (v - 52)
    ELSE IF v = 62 THEN 43 ELSE 47
\* src/utils/xianyu_utils.py:292  the characters decrypt keeps, less "="
B64Alphabet == {B64Char(v) : v \in 0..63}
B64Value(c) == CHOOSE v \in 0..63 : B64Char(v) = c
PadChar == 61

\* src/utils/xianyu_utils.py:292  drop every character outside the alphabet
clean(data) == SelectSeq(data, LAMBDA c : c \in B64Alphabet \cup {PadChar})

\* src/utils/xianyu_utils.py:295-296  pad with "=" to a multiple of 4
RECURSIVE pad(_)
pad(s) == IF Len(s) % 4 = 0 THEN s ELSE pad(Append(s, PadChar))

\* binascii.a2b_base64 as base64.b64decode(s) calls it (not strict): i is
\* the next character, q the place in the group of four, left the bits
\* carried over, pads the "=" seen since the last data character.  A "="
\* ends the data once it completes the group (q >= 2 and q + pads >= 4) and
\* is skipped otherwise; data left in an open group at the end is an error.
RECURSIVE a2b_scan(_, _, _, _, _, _)
a2b_scan(s, i, q, left, pads, out) ==
    IF i > Len(s)
    THEN IF q = 0 THEN [ok |-> TRUE, bytes |-> out, err |-> "none"]
         ELSE IF q = 1
         THEN [ok |-> FALSE, bytes |-> <<>>,
               err |-> "Invalid base64-encoded string: number of data characters cannot be 1 more than a multiple of 4"]
         ELSE [ok |-> FALSE, bytes |-> <<>>, err |-> "Incorrect padding"]
    ELSE IF s[i] = PadChar
    THEN IF q >= 2 /\ q + pads + 1 >= 4
         THEN [ok |-> TRUE, bytes |-> out, err |-> "none"]
         ELSE a2b_scan(s, i + 1, q, left, IF q >= 2 THEN pads + 1 ELSE pads, out)
    ELSE LET v == B64Value(s[i])
         IN  CASE q = 0 -> a2b_scan(s, i + 1, 1, v, 0, out)
               [] q = 1 -> a2b_scan(s, i + 1, 2, v % 16, 0,
                                    Append(out, left * 4 + v \div 16))
               [] q = 2 -> a2b_scan(s, i + 1, 3, v % 4, 0,
                                    Append(out, left * 16 + v \div 4))
               [] q = 3 -> a2b_scan(s, i + 1, 0, 0, 0,
                                    Append(out, left * 64 + v))

\* src/utils/xianyu_utils.py:299  base64.b64decode(cleaned_data)
b64decode(s) == a2b_scan(s, 1, 0, 0, 0, <<>>)

\* src/utils/xianyu_utils.py:284, 316  base64.b64encode(data).decode('utf-8')
RECURSIVE b64encode(_)
b64encode(b) ==
    IF Len(b) = 0 THEN <<>>
    ELSE IF Len(b) = 1
    THEN << B64Char(b[1] \div 4), B64Char((b[1] % 4) * 16), PadChar, PadChar >>
    ELSE IF Len(b) = 2
    THEN << B64Char(b[1] \div 4),
            B64Char((b[1] % 4) * 16 + b[2] \div 16),
            B64Char((b[2] % 16) * 4), PadChar >>
    ELSE << B64Char(b[1] \div 4),
            B64Char((b[1] % 4) * 16 + b[2] \div 16),
            B64Char((b[2] % 16) * 4 + b[3] \div 64),
            B64Char(b[3] % 64) >> \o b64encode(SubSeq(b, 4, Len(b)))

\* ------------------------------------------------------------------ UTF-8
\* bytes.decode('utf-8'): whether the bytes from position i on are well
\* formed (no overlong form, no surrogate, nothing above U+10FFFF)
IsCont(b, i, lo, hi) == i <= Len(b) /\ b[i] >= lo /\ b[i] <= hi
RECURSIVE Utf8From(_, _)
Utf8From(b, i) ==
    IF i > Len(b) THEN TRUE
    ELSE LET c == b[i] IN
         IF c <= 127 THEN Utf8From(b, i + 1)
         ELSE IF c >= 194 /\ c <= 223
         THEN IsCont(b, i + 1, 128, 191) /\ Utf8From(b, i + 2)
         ELSE IF c >= 224 /\ c <= 239
         THEN /\ IsCont(b, i + 1, IF c = 224 THEN 160 ELSE 128,
                                  IF c = 237 THEN 159 ELSE 191)
              /\ IsCont(b, i + 2, 128, 191) /\ Utf8From(b, i + 3)
         ELSE IF c >= 240 /\ c <= 244
         THEN /\ IsCont(b, i + 1, IF c = 240 THEN 144 ELSE 128,
                                  IF c = 244 THEN 143 ELSE 191)
              /\ IsCont(b, i + 2, 128, 191) /\ IsCont(b, i + 3, 128, 191)
              /\ Utf8From(b, i + 4)
         ELSE FALSE
Utf8Valid(b) == Utf8From(b, 1)

\* ------------------------------------------------------ decoded values
\* A Python value the decoder can build: t is its type, n the number of an
\* int or bool, s the bytes of a str or bytes value (or of a number kept
\* raw), xs the items of a list or the values of a dict, ks a dict's keys.
Val(t, n, s, xs, ks) == [t |-> t, n |-> n, s |-> s, xs |-> xs, ks |-> ks]
PyInt(n) == Val("int", n, <<>>, <<>>, <<>>)
PyBool(b) == Val("bool", IF b THEN 1 ELSE 0, <<>>, <<>>, <<>>)
PyNone == Val("None", 0, <<>>, <<>>, <<>>)
PyStr(b) == Val("str", 0, b, <<>>, <<>>)
PyBytes(b) == Val("bytes", 0, b, <<>>, <<>>)
PyList(xs) == Val("list", 0, <<>>, xs, <<>>)
PyDict(ks, xs) == Val("dict", 0, <<>>, xs, ks)
\* a float, or an integer of 2^31 or more in size: its tag and raw bytes
PyRaw(tag, raw) == Val(tag, 0, raw, <<>>, <<>>)

RECURSIVE BigEndian(_)
BigEndian(bs) ==
    IF bs = <<>> THEN 0
    ELSE BigEndian(SubSeq(bs, 1, Len(bs) - 1)) * 256 + bs[Len(bs)]

\* struct.unpack('>B' '>H' '>I' '>Q', bs): the number when it is below 2^31
Fits(bs) == \A i \in 1..Len(bs) : i < Len(bs) - 3 => bs[i] = 0
UnsignedOf(tag, bs) ==
    IF Fits(bs) /\ (Len(bs) < 4 \/ bs[Len(bs) - 3] < 128)
    THEN PyInt(BigEndian(bs))
    ELSE PyRaw(tag, bs)
\* struct.unpack('>b' '>h' '>i' '>q', bs): two's complement
SignedOf(tag, bs) ==
    IF bs[1] < 128 THEN UnsignedOf(tag, bs)
    ELSE IF \A i \in 1..Len(bs) : i < Len(bs) - 3 => bs[i] = 255
    THEN LET low == IF Len(bs) > 4 THEN SubSeq(bs, Len(bs) - 3, Len(bs)) ELSE bs
         IN  IF Len(low) = 4 /\ low[1] < 128 THEN PyRaw(tag, bs)
             ELSE PyInt(BigEndian(Tail(low))
                        + (low[1] - 256) * (2 ^ (8 * (Len(low) - 1))))
    ELSE PyRaw(tag, bs)

\* ----------------------------------------------------- MessagePackDecoder
\* pos is the index of the next byte, counted from 1
Fail(e) == [ok |-> FALSE, val |-> PyNone, pos |-> 0, err |-> e]
Done(v, p) == [ok |-> TRUE, val |-> v, pos |-> p, err |-> "none"]

\* a read that, like a slice, gives what is left when the count runs past
\* the end
read_bytes_truncating(data, pos, count) ==
    [ok |-> TRUE,
     bytes |-> SubSeq(data, pos, IF pos + count - 1 > Len(data) THEN Len(data)
                                 ELSE pos + count - 1),
     pos |-> pos + count]
\* src/utils/xianyu_utils.py:80-92  read_byte / read_bytes
read_bytes(data, pos, count) ==
    IF pos - 1 + count > Len(data)
    THEN [ok |-> FALSE, bytes |-> <<>>, pos |-> pos]
    ELSE [ok |-> TRUE, bytes |-> SubSeq(data, pos, pos + count - 1),
          pos |-> pos + count]

\* src/utils/xianyu_utils.py:94-101  a length field of `width` bytes.  A
\* 32-bit length of 2^31 or more is longer than any buffer: it stands as
\* one more than the buffer holds, which fails the same reads.
read_size(data, pos, width) ==
    LET r == read_bytes(data, pos, width)
    IN  [ok |-> r.ok, pos |-> r.pos,
         size |-> IF ~r.ok THEN 0
                  ELSE IF width = 4 /\ r.bytes[1] >= 128 THEN Len(data) + 1
                  ELSE BigEndian(r.bytes)]

\* src/utils/xianyu_utils.py:94-122  a number of `width` bytes
read_number(data, pos, width, tag, signed) ==
    LET r == read_bytes(data, pos, width)
    IN  IF ~r.ok THEN Fail("Unexpected end of data")
        ELSE IF tag \in {"float32", "float64"} THEN Done(PyRaw(tag, r.bytes), r.pos)
        ELSE IF signed THEN Done(SignedOf(tag, r.bytes), r.pos)
        ELSE Done(UnsignedOf(tag, r.bytes), r.pos)

\* src/utils/xianyu_utils.py:124-125  read_string
read_string(data, pos, length) ==
    LET r == read_bytes(data, pos, length)
    IN  IF ~r.ok THEN Fail("Unexpected end of data")
        ELSE IF ~Utf8Valid(r.bytes) THEN Fail("'utf-8' codec can't decode")
        ELSE Done(PyStr(r.bytes), r.pos)

\* src/utils/xianyu_utils.py:166-178  bin 8 / 16 / 32
read_bin(data, pos, width) ==
    LET z == read_size(data, pos, width)
        r == read_bytes(data, z.pos, z.size)
    IN  IF ~z.ok \/ ~r.ok THEN Fail("Unexpected end of data")
        ELSE Done(PyBytes(r.bytes), r.pos)

\* Python's == on dict keys: an int and a bool of the same number are one
\* key; a number kept raw is told apart by its tag and bytes
PyEq(a, b) ==
    IF a.t \in {"int", "bool"} /\ b.t \in {"int", "bool"} THEN a.n = b.n
    ELSE a.t = b.t /\ a.s = b.s

\* src/utils/xianyu_utils.py:275  result[key] = value: a known key keeps its
\* place and its first key object, a new one goes to the end
DictPut(ks, xs, k, v) ==
    IF \E i \in 1..Len(ks) : PyEq(ks[i], k)
    THEN [ks |-> ks,
          xs |-> [i \in 1..Len(xs) |-> IF PyEq(ks[i], k) THEN v ELSE xs[i]]]
    ELSE [ks |-> Append(ks, k), xs |-> Append(xs, v)]

RECURSIVE decode_value(_, _)
RECURSIVE decode_array(_, _, _, _)
RECURSIVE decode_map(_, _, _, _, _)

\* a decode_array that puts each element in front of the earlier ones
RECURSIVE decode_array_reversed(_, _, _, _)
decode_array_reversed(data, pos, size, acc) ==
    IF size = 0 THEN Done(PyList(acc), pos)
    ELSE LET r == decode_value(data, pos)
         IN  IF ~r.ok THEN r
             ELSE decode_array_reversed(data, r.pos, size - 1, <<r.val>> \o acc)

\* src/utils/xianyu_utils.py:262-267
decode_array(data, pos, size, acc) ==
    IF size = 0 THEN Done(PyList(acc), pos)
    ELSE LET r == decode_value(data, pos)
         IN  IF ~r.ok THEN r
             ELSE decode_array(data, r.pos, size - 1, Append(acc, r.val))

\* src/utils/xianyu_utils.py:269-276
decode_map(data, pos, size, ks, xs) ==
    IF size = 0 THEN Done(PyDict(ks, xs), pos)
    ELSE LET k == decode_value(data, pos)
         IN  IF ~k.ok THEN k
             ELSE LET v == decode_value(data, k.pos)
                  IN  IF ~v.ok THEN v
                      ELSE IF k.val.t \in {"list", "dict"}
                      THEN Fail("unhashable type")
                      ELSE LET d == DictPut(ks, xs, k.val, v.val)
                           IN  decode_map(data, v.pos, size - 1, d.ks, d.xs)

\* src/utils/xianyu_utils.py:236-253  array 16/32 and map 16/32
read_array(data, pos, width) ==
    LET z == read_size(data, pos, width)
    IN  IF ~z.ok THEN Fail("Unexpected end of data")
        ELSE decode_array(data, z.pos, z.size, <<>>)
read_map(data, pos, width) ==
    LET z == read_size(data, pos, width)
    IN  IF ~z.ok THEN Fail("Unexpected end of data")
        ELSE decode_map(data, z.pos, z.size, <<>>, <<>>)
\* src/utils/xianyu_utils.py:221-233  str 8/16/32
read_str(data, pos, width) ==
    LET z == read_size(data, pos, width)
    IN  IF ~z.ok THEN Fail("Unexpected end of data")
        ELSE read_string(data, z.pos, z.size)

\* src/utils/xianyu_utils.py:127-260
decode_value(data, pos) ==
    IF pos > Len(data) THEN Fail("Unexpected end of data")
    ELSE LET f == data[pos]
             p == pos + 1
         IN  CASE f <= 127 -> Done(PyInt(f), p)
               [] f >= 128 /\ f <= 143 -> decode_map(data, p, f % 16, <<>>, <<>>)
               [] f >= 144 /\ f <= 159 -> decode_array(data, p, f % 16, <<>>)
               [] f >= 160 /\ f <= 191 -> read_string(data, p, f % 32)
               [] f = 192 -> Done(PyNone, p)
               [] f = 194 -> Done(PyBool(FALSE), p)
               [] f = 195 -> Done(PyBool(TRUE), p)
               [] f = 196 -> read_bin(data, p, 1)
               [] f = 197 -> read_bin(data, p, 2)
               [] f = 198 -> read_bin(data, p, 4)
               [] f = 202 -> read_number(data, p, 4, "float32", FALSE)
               [] f = 203 -> read_number(data, p, 8, "float64", FALSE)
               [] f = 204 -> read_number(data, p, 1, "uint8", FALSE)
               [] f = 205 -> read_number(data, p, 2, "uint16", FALSE)
               [] f = 206 -> read_number(data, p, 4, "uint32", FALSE)
               [] f = 207 -> read_number(data, p, 8, "uint64", FALSE)
               [] f = 208 -> read_number(data, p, 1, "int8", TRUE)
               [] f = 209 -> read_number(data, p, 2, "int16", TRUE)
               [] f = 210 -> read_number(data, p, 4, "int32", TRUE)
               [] f = 211 -> read_number(data, p, 8, "int64", TRUE)
               [] f = 217 -> read_str(data, p, 1)
               [] f = 218 -> read_str(data, p, 2)
               [] f = 219 -> read_str(data, p, 4)
               [] f = 220 -> read_array(data, p, 2)
               [] f = 221 -> read_array(data, p, 4)
               [] f = 222 -> read_map(data, p, 2)
               [] f = 223 -> read_map(data, p, 4)
               [] f >= 224 -> Done(PyInt(f - 256), p)
               [] OTHER -> Fail("Unknown format byte")

\* a decode that also gives up when bytes are left after the value
decode_strict(data) ==
    LET r == decode_value(data, 1)
    IN  IF r.ok /\ r.pos = Len(data) + 1 THEN r.val ELSE PyStr(b64encode(data))
\* src/utils/xianyu_utils.py:278-284  decode: whatever decode_value raises
\* is swallowed and the base64 text of the data is returned in its place
decode(data) ==
    LET r == decode_value(data, 1)
    IN  IF r.ok THEN r.val ELSE PyStr(b64encode(data))

\* ------------------------------------------------------------- json.dumps
\* A JSON text is the sequence of its tokens.  A string token stands for the
\* quoted, escaped literal of a str: of the str with UTF-8 form s, or of
\* the str written a (a word of the source) followed by e (the message of
\* an exception).  k tells whether characters beyond ASCII are escaped too
\* ("ascii_string", the default) or kept ("string", ensure_ascii=False).
Tok(k, a, e, n, s) == [k |-> k, a |-> a, e |-> e, n |-> n, s |-> s]
Punct(a) == Tok("punct", a, "", 0, <<>>)
JLit(a) == Tok("literal", a, "", 0, <<>>)
JNum(n) == Tok("number", "", "", n, <<>>)
\* the repr of a float, or the digits of an integer kept raw
JRaw(tag, raw) == Tok(tag, "", "", 0, raw)
JStr(s, ascii) == Tok(IF ascii THEN "ascii_string" ELSE "string", "", "", 0, s)
JWord(a, e) == Tok("ascii_string", a, e, 0, <<>>)

\* str(n) of an int, as ASCII
RECURSIVE Digits(_)
Digits(n) == IF n < 10 THEN <<48 + n>> ELSE Append(Digits(n \div 10), 48 + (n % 10))
DecStr(n) == IF n < 0 THEN <<45>> \o Digits(0 - n) ELSE Digits(n)

\* bytes.hex(): two lowercase hex digits per byte
HexDigit(v) == IF v < 10 THEN 48 + v ELSE 87 + v
RECURSIVE HexOf(_)
HexOf(b) ==
    IF b = <<>> THEN <<>>
    ELSE <<HexDigit(b[1] \div 16), HexDigit(b[1] % 16)>> \o HexOf(Tail(b))

\* src/utils/xianyu_utils.py:310-320  json_serializer, for what the encoder
\* cannot write itself: here only bytes
json_serializer(v) ==
    IF Utf8Valid(v.s) THEN PyStr(v.s) ELSE PyStr(b64encode(v.s))

JOk(text) == [ok |-> TRUE, text |-> text, err |-> "none"]
JFail(e) == [ok |-> FALSE, text |-> <<>>, err |-> e]

\* the key of a dict item as the encoder writes it: a str as it is, an int,
\* bool, None or float by its JSON spelling; anything else is a TypeError
JsonKey(k, ascii) ==
    CASE k.t = "str" -> JOk(<<JStr(k.s, ascii)>>)
      [] k.t = "int" -> JOk(<<JStr(DecStr(k.n), ascii)>>)
      [] k.t = "bool" ->
            JOk(<<JStr(IF k.n = 1 THEN <<116, 114, 117, 101>>
                       ELSE <<102, 97, 108, 115, 101>>, ascii)>>)
      [] k.t = "None" -> JOk(<<JStr(<<110, 117, 108, 108>>, ascii)>>)
      [] k.t = "bytes" ->
            JFail("keys must be str, int, float, bool or None, not bytes")
      [] OTHER -> JOk(<<Tok("string_of", k.t, "", 0, k.s)>>)

RECURSIVE JsonOf(_, _)
RECURSIVE JsonItems(_, _, _, _)
RECURSIVE JsonPairs(_, _, _, _, _)

\* the items of a list from the i-th on, joined by ", "
JsonItems(xs, i, ascii, acc) ==
    IF i > Len(xs) THEN JOk(acc)
    ELSE LET x == JsonOf(xs[i], ascii)
         IN  IF ~x.ok THEN x
             ELSE JsonItems(xs, i + 1, ascii,
                     acc \o (IF i > 1 THEN <<Punct(", ")>> ELSE <<>>) \o x.text)

\* the items of a dict from the i-th on, each key ": " value, joined by ", "
JsonPairs(ks, xs, i, ascii, acc) ==
    IF i > Len(ks) THEN JOk(acc)
    ELSE LET k == JsonKey(ks[i], ascii)
         IN  IF ~k.ok THEN k
             ELSE LET x == JsonOf(xs[i], ascii)
                  IN  IF ~x.ok THEN x
                      ELSE JsonPairs(ks, xs, i + 1, ascii,
                              acc \o (IF i > 1 THEN <<Punct(", ")>> ELSE <<>>)
                                  \o k.text \o <<Punct(": ")>> \o x.text)

\* json.dumps(v, default=json_serializer), with ensure_ascii as given
JsonOf(v, ascii) ==
    CASE v.t = "int" -> JOk(<<JNum(v.n)>>)
      [] v.t = "bool" -> JOk(<<JLit(IF v.n = 1 THEN "true" ELSE "false")>>)
      [] v.t = "None" -> JOk(<<JLit("null")>>)
      [] v.t = "str" -> JOk(<<JStr(v.s, ascii)>>)
      [] v.t = "bytes" -> JsonOf(json_serializer(v), ascii)
      [] v.t = "list" ->
            LET r == JsonItems(v.xs, 1, ascii, <<>>)
            IN  IF ~r.ok THEN r
                ELSE JOk(<<Punct("[")>> \o r.text \o <<Punct("]")>>)
      [] v.t = "dict" ->
            LET r == JsonPairs(v.ks, v.xs, 1, ascii, <<>>)
            IN  IF ~r.ok THEN r
                ELSE JOk(<<Punct("{")>> \o r.text \o <<Punct("}")>>)
      [] OTHER -> JOk(<<JRaw(v.t, v.s)>>)

\* ---------------------------------------------------------------- decrypt
\* json.dumps({"error": f"{word}{e}", "raw_data": data})
ErrorTier(word, e, data) ==
    << Punct("{"), JWord("error", ""), Punct(": "), JWord(word, e),
       Punct(", "), JWord("raw_data", ""), Punct(": "), JStr(data, TRUE),
       Punct("}") >>
\* json.dumps({"text": text_result})
TextTier(b) ==
    << Punct("{"), JWord("text", ""), Punct(": "), JStr(b, TRUE), Punct("}") >>
\* json.dumps({"hex": hex_result, "error": f"Decode failed: {e}"})
HexTier(b, e) ==
    << Punct("{"), JWord("hex", ""), Punct(": "), JStr(HexOf(b), TRUE),
       Punct(", "), JWord("error", ""), Punct(": "),
       JWord("Decode failed: ", e), Punct("}") >>

Returned(text) == [ran |-> TRUE, raised |-> FALSE, err |-> "none", text |-> text]
Raised(e) == [ran |-> TRUE, raised |-> TRUE, err |-> e, text |-> <<>>]

\* a decrypt that reports the cleaned and padded text as raw_data
decrypt_reporting_cleaned(data) ==
    LET c == pad(clean(data))
        d == b64decode(c)
        j == JsonOf(decode(d.bytes), FALSE)
    IN  IF ~d.ok
        THEN Returned(ErrorTier("Base64 decode failed: ", d.err, c))
        ELSE IF j.ok THEN Returned(j.text)
        ELSE IF Utf8Valid(d.bytes) THEN Returned(TextTier(d.bytes))
        ELSE Returned(HexTier(d.bytes, j.err))

\* a decrypt whose steps stand outside any try block
decrypt_unguarded(data) ==
    LET d == b64decode(pad(clean(data)))
        j == JsonOf(decode(d.bytes), FALSE)
    IN  IF ~d.ok THEN Raised(d.err)
        ELSE IF ~j.ok THEN Raised(j.err)
        ELSE Returned(j.text)
\* src/utils/xianyu_utils.py:287-335
decrypt(data) ==
    LET d == b64decode(pad(clean(data)))
        j == JsonOf(decode(d.bytes), FALSE)
    IN  IF ~d.ok
        THEN Returned(ErrorTier("Base64 decode failed: ", d.err, data))
        ELSE IF j.ok THEN Returned(j.text)
        ELSE IF Utf8Valid(d.bytes) THEN Returned(TextTier(d.bytes))
        ELSE Returned(HexTier(d.bytes, j.err))

\* ------------------------------------------------- decrypt on its inputs
\* longest buffer, and longest irregular string, that decrypt is tried on
MaxBytes == 3
MaxChars == 4

\* one byte of every kind of tag the small buffers can hold: fixint (1 and
\* "h"), fixmap, fixarray, fixstr, nil, the unassigned 0xc1, bin 8
SomeBytes == {1, 104, 129, 145, 161, 192, 193, 196}
\* "Q" and "w" of the alphabet, the pad "=", and "!" from outside it
SomeChars == {81, 119, 61, 33}

SeqsUpTo(S, n) == UNION {[1..k -> S] : k \in 0..n}

\* longer buffers: the text "hello", a map with a bytes key, a str 8, and a
\* str cut short
SampleBuffers ==
    { <<104, 101, 108, 108, 111>>, <<129, 196, 0, 1>>,
      <<217, 2, 104, 105>>, <<165, 104, 105>> }

\* what decrypt is given: data is the str, of the structure it was encoded
\* from (empty when it was not built from one)
Given(data) == [data |-> data, of |-> <<>>]
PlainInputs ==
    {Given(b64encode(b)) : b \in SeqsUpTo(SomeBytes, MaxBytes) \cup SampleBuffers}
    \cup {Given(c) : c \in SeqsUpTo(SomeChars, MaxChars)}

\* the tagged-binary form of a structure of maps with str keys, lists, short
\* strs, small ints, booleans and None: what decode_value reads back
RECURSIVE Pack(_)
RECURSIVE PackItems(_, _)
RECURSIVE PackPairs(_, _, _)
PackItems(xs, i) ==
    IF i > Len(xs) THEN <<>> ELSE Pack(xs[i]) \o PackItems(xs, i + 1)
PackPairs(ks, xs, i) ==
    IF i > Len(ks) THEN <<>>
    ELSE Pack(ks[i]) \o Pack(xs[i]) \o PackPairs(ks, xs, i + 1)
Pack(v) ==
    CASE v.t = "int" -> IF v.n >= 0 THEN <<v.n>> ELSE <<256 + v.n>>
      [] v.t = "bool" -> IF v.n = 1 THEN <<195>> ELSE <<194>>
      [] v.t = "None" -> <<192>>
      [] v.t = "str" -> <<160 + Len(v.s)>> \o v.s
      [] v.t = "list" -> <<144 + Len(v.xs)>> \o PackItems(v.xs, 1)
      [] v.t = "dict" -> <<128 + Len(v.ks)>> \o PackPairs(v.ks, v.xs, 1)

\* longest list inside the structures that are encoded and fed to decrypt
MaxItems == 1

Scalars ==
    { PyInt(1), PyInt(0 - 3), PyBool(TRUE), PyBool(FALSE), PyNone,
      PyStr(<<104, 105>>) }
Lists ==
    {PyList(xs) : xs \in SeqsUpTo(Scalars, MaxItems)}
    \cup {PyList(<<PyInt(1), PyInt(2), PyInt(3)>>)}
Leaves == Scalars \cup Lists
\* the keys "a" and "b", in either order
KeySeqs ==
    { <<>>, <<PyStr(<<97>>)>>, <<PyStr(<<98>>)>>,
      <<PyStr(<<97>>), PyStr(<<98>>)>>, <<PyStr(<<98>>), PyStr(<<97>>)>> }
Dicts == UNION {{PyDict(ks, xs) : xs \in [1..Len(ks) -> Leaves]} : ks \in KeySeqs}
\* {"a": 1, "b": [1, 2, 3], "c": "hi"}
Example ==
    PyDict(<<PyStr(<<97>>), PyStr(<<98>>), PyStr(<<99>>)>>,
           <<PyInt(1), PyList(<<PyInt(1), PyInt(2), PyInt(3)>>),
             PyStr(<<104, 105>>)>>)
Structures ==
    Leaves \cup Dicts
    \cup { Example, PyList(<<Example, PyNone>>),
           PyDict(<<PyStr(<<97>>)>>, <<PyDict(<<PyStr(<<98>>)>>, <<Example>>)>>) }

DecryptInputs ==
    PlainInputs
    \cup {[data |-> b64encode(Pack(v)), of |-> <<v>>] : v \in Structures}

InitDecrypt ==
    /\ FreshClient
    /\ fn = "decrypt" /\ input \in DecryptInputs /\ output = NotRun
    /\ ServerOff

\* the caller decodes one payload
RunDecrypt ==
    /\ fn = "decrypt" /\ ~output.ran
    /\ output' = decrypt(input.data)
    /\ UNCHANGED <<jar, op, arg, pc, stack, nextSite, lretry, req, result,
                   sent, attempts, listedOnly, lattempts, reauths, lastRecv,
                   loginDedupes, lastDedupe, cancelled, fn, input, srv, ctx, ai>>

NextDecrypt == RunDecrypt

SpecDecrypt == InitDecrypt /\ [][NextDecrypt]_vars

\* ------------------------------------------- generate_sign on its inputs
\* longest token and longest data that are signed, in pieces
MaxSignLen == 2

\* the pieces a token or a data string is made of: the separator is one
SignPieces == {"A", "&"}
SignTimes == {"1000", "2000", "&"}
SignInputs ==
    [t : SignTimes, token : SeqsUpTo(SignPieces, MaxSignLen),
     data : SeqsUpTo(SignPieces, MaxSignLen)]
\* a second call that differs from call a in at most one argument
OneChanged(a) ==
    {[a EXCEPT !.t = x] : x \in SignTimes}
    \cup {[a EXCEPT !.token = x] : x \in SeqsUpTo(SignPieces, MaxSignLen)}
    \cup {[a EXCEPT !.data = x] : x \in SeqsUpTo(SignPieces, MaxSignLen)}

InitSign ==
    /\ FreshClient
    /\ fn = "generate_sign"
    /\ \E a \in SignInputs : \E b \in OneChanged(a) : input = [a |-> a, b |-> b]
    /\ output = NotRun
    /\ ServerOff

\* the caller signs both requests
RunSign ==
    /\ fn = "generate_sign" /\ ~output.ran
    /\ output' = Returned(<<generate_sign(input.a.t, input.a.token, input.a.data),
                            generate_sign(input.b.t, input.b.token, input.b.data)>>)
    /\ UNCHANGED <<jar, op, arg, pc, stack, nextSite, lretry, req, result,
                   sent, attempts, listedOnly, lattempts, reauths, lastRecv,
                   loginDedupes, lastDedupe, cancelled, fn, input, srv, ctx, ai>>

NextSign == RunSign

SpecSign == InitSign /\ [][NextSign]_vars

\* ------------------------------------------- trans_cookies on its inputs
\* Python: s.split(sep) for a separator of several characters: the pieces
\* between its occurrences, found from the left without overlap
RECURSIVE split_str(_, _)
split_str(s, sep) ==
    LET n == Len(sep)
        at == {k \in 1..(Len(s) - n + 1) : SubSeq(s, k, k + n - 1) = sep}
    IN  IF at = {} THEN <<s>>
        ELSE LET k == CHOOSE x \in at : \A y \in at : x <= y
             IN  <<SubSeq(s, 1, k - 1)>>
                     \o split_str(SubSeq(s, k + n, Len(s)), sep)

\* a split that cuts at the last "=" of the piece
split_at_last(cookie) ==
    LET at == {k \in 1..Len(cookie) : cookie[k] = "="}
    IN  IF at = {} THEN <<cookie>>
        ELSE LET k == CHOOSE x \in at : \A y \in at : y <= x
             IN  <<SubSeq(cookie, 1, k - 1), SubSeq(cookie, k + 1, Len(cookie))>>
\* src/utils/xianyu_utils.py:14  cookie.split('=', 1)
split_once(cookie) ==
    LET k == FirstIndex(cookie, "=", 1)
    IN  IF k > Len(cookie) THEN <<cookie>>
        ELSE <<SubSeq(cookie, 1, k - 1), SubSeq(cookie, k + 1, Len(cookie))>>

\* src/utils/xianyu_utils.py:16  cookies[parts[0]] = parts[1] on the dict
\* kept as the sequence of its items: a known key keeps its place
dict_set(cookies, key, value) ==
    IF \E i \in 1..Len(cookies) : cookies[i].name = key
    THEN [i \in 1..Len(cookies) |->
             IF cookies[i].name = key THEN [name |-> key, value |-> value]
             ELSE cookies[i]]
    ELSE Append(cookies, [name |-> key, value |-> value])

\* src/utils/xianyu_utils.py:12-18  the loop over the pieces
RECURSIVE cookies_from(_, _, _)
cookies_from(pieces, i, cookies) ==
    IF i > Len(pieces) THEN cookies
    ELSE LET parts == split_once(pieces[i])
         IN  cookies_from(pieces, i + 1,
                 IF Len(parts) = 2 THEN dict_set(cookies, parts[1], parts[2])
                 ELSE cookies)

\* src/utils/xianyu_utils.py:9-19
trans_cookies(cookies_str) ==
    cookies_from(split_str(cookies_str, <<";", " ">>), 1, <<>>)

\* most entries of a cookie string that is parsed
MaxCookies == 3

\* entries of a cookie string: well formed, without "=", with two "=", with
\* an empty name or value, with a lone ";" or a leading space, and empty
CookieEntries ==
    { <<"a", "=", "1">>, <<"a", "=", "2">>, <<"b", "=", "1">>,
      <<"a">>, <<"=", "1">>, <<"a", "=">>, <<"a", "=", "1", "=", "2">>,
      <<>>, <<"a", ";", "b", "=", "1">>, <<" ", "a", "=", "1">>,
      <<"b", "=", ";">> }

\* Python: '; '.join(entries)
RECURSIVE joined(_)
joined(entries) ==
    IF entries = <<>> THEN <<>>
    ELSE IF Len(entries) = 1 THEN entries[1]
    ELSE entries[1] \o <<";", " ">> \o joined(Tail(entries))

InitCookies ==
    /\ FreshClient
    /\ fn = "trans_cookies"
    /\ \E es \in SeqsUpTo(CookieEntries, MaxCookies) :
           input = [data |-> joined(es), of |-> es]
    /\ output = NotRun
    /\ ServerOff

\* the caller parses one cookie string
RunCookies ==
    /\ fn = "trans_cookies" /\ ~output.ran
    /\ output' = Returned(trans_cookies(input.data))
    /\ UNCHANGED <<jar, op, arg, pc, stack, nextSite, lretry, req, result,
                   sent, attempts, listedOnly, lattempts, reauths, lastRecv,
                   loginDedupes, lastDedupe, cancelled, fn, input, srv, ctx, ai>>

NextCookies == RunCookies

SpecCookies == InitCookies /\ [][NextCookies]_vars

\* ================================================================ claims
TokenEntries(j) == {i \in 1..Len(j) : j[i].name = TokenCookie}
LoginPcs == {"login_entry", "login_sent", "login_backoff"}

\* C1: a get_item_info call all of whose attempts fail (marker missing,
\* body no mapping, exception while sending) never sends more than 3
\* requests and ends only after exactly 3, with its error value.
C1_ItemRetryBound ==
    op = "get_item_info" =>
        /\ sent <= 3
        /\ (listedOnly /\ pc \in {"done", "raised"}) =>
               (sent = 3 /\ attempts = 3 /\ result.kind = "error")
        /\ result.kind = "error" => (sent = 3 /\ pc = "done")

C1_Witness ==
    /\ op = "get_item_info" /\ pc = "done" /\ listedOnly
    /\ sent = 3 /\ result.kind = "error"
    /\ lastRecv.outcome = "notmapping"

\* C2: when the handshake keeps failing, get_token halts after exactly 2
\* handshake attempts: hasLogin gives False at retry_count 2, never later,
\* and get_token then exits instead of trying again.
C2_FatalAfterTwo ==
    /\ [](/\ pc \in LoginPcs => (lretry <= 2 /\ lattempts <= 2)
          /\ pc = "fatal" =>
                (op = "get_token" /\ lretry = 2 /\ lattempts = 2)
          /\ result.kind = "false" => (lretry = 2 /\ lattempts = 2))
    /\ [][(pc = "login_entry" /\ op = "get_token" /\ lretry = 2)
              => pc' = "fatal"]_vars

C2_Witness ==
    pc = "fatal" /\ op = "get_token" /\ lattempts = 2 /\ sent = 2

\* C3 (as claimed): within one get_token call the handshake cycle is
\* entered at most once.
C3_ReauthAtMostOnce == op = "get_token" => reauths <= 1

\* C4: a body reaches the caller only if it is a mapping whose ret list has
\* an entry containing the success marker; that response ends the call, so
\* no request is in flight or being prepared once a body was returned.
C4_OnlySuccessReturned ==
    /\ result.kind = "body" =>
          /\ result.body.kind = "mapping"
          /\ result.body.present /\ result.body.iterable
          /\ \E i \in 1..Len(result.body.entries) :
                Contains(<<"SUCCESS", "::", "(call succeeded)">>,
                         result.body.entries[i])
          /\ pc = "done" /\ stack = <<>> /\ req = NoReq
          /\ lastRecv.outcome = "success"
    /\ pc \in {"entry", "sent", "backoff"} \cup LoginPcs =>
          result.kind = "none"

C4_Witness ==
    /\ result.kind = "body" /\ op = "get_token"
    /\ Len(result.body.entries) = 2 /\ sent = 2

\* C5 (as claimed): the jar never holds two cookies of one name.
C5_OneEntryPerName ==
    \A i, k \in 1..Len(jar) : jar[i].name = jar[k].name => i = k

\* C6: clear_duplicate_cookies leaves exactly one cookie of every name that
\* was in the jar, with the value of that name's last occurrence, and
\* nothing else.
C6_DedupeKeepsLast ==
    lastDedupe.ran =>
        LET pre == lastDedupe.pre
            post == lastDedupe.post
        IN  /\ NamesOf(post) = NamesOf(pre)
            /\ Len(post) = Cardinality(NamesOf(pre))
            /\ \A i \in 1..Len(post) :
                 \E k \in 1..Len(pre) :
                    /\ pre[k] = post[i]
                    /\ \A m \in (k + 1)..Len(pre) : pre[m].name # pre[k].name
            /\ jar = post

C6_Witness ==
    /\ lastDedupe.ran
    /\ \E i, k \in 1..Len(lastDedupe.pre) :
          /\ i < k
          /\ lastDedupe.pre[i].name = lastDedupe.pre[k].name
          /\ lastDedupe.pre[i].value # lastDedupe.pre[k].value
    /\ Len(lastDedupe.post) = 2

\* C7 (as claimed): after a response without the marker,
\* clear_duplicate_cookies has run by the time the next attempt is signed
\* exactly when that response carried Set-Cookie.
C7_DedupeIffSetCookie ==
    (pc = "sent" /\ lastRecv.outcome = "nomarker") =>
        ((lastRecv.deduped \/ loginDedupes > 0) <=> lastRecv.setCookie)

\* C7 (amended): the handling of a response without the marker runs
\* clear_duplicate_cookies exactly when the response carried Set-Cookie;
\* any other run before the next attempt is the one of a successful
\* handshake that get_token went through in between.
C7_HandlerDedupeIffSetCookie ==
    lastRecv.outcome = "nomarker" =>
        /\ lastRecv.deduped <=> lastRecv.setCookie
        /\ loginDedupes > 0 =>
              (op = "get_token" /\ reauths >= 1 /\ loginDedupes = 1)
        /\ (op = "get_item_info" /\ pc = "sent") => loginDedupes = 0

C7_Witness ==
    /\ pc = "sent" /\ attempts = 2
    /\ lastRecv.outcome = "nomarker" /\ lastRecv.setCookie /\ lastRecv.deduped

\* C8: the request in flight is signed with the part of the jar's current
\* _m_h5_tk value before its first "_" (empty when there is no such
\* cookie), and the signed message holds that token once, in front.
C8_SignsCurrentToken ==
    pc = "sent" =>
        LET v == IF TokenEntries(jar) = {} THEN <<>>
                 ELSE jar[CHOOSE i \in TokenEntries(jar) : TRUE].value
            n == Len(req.token)
        IN  /\ Cardinality(TokenEntries(jar)) <= 1
            /\ n <= Len(v)
            /\ req.token = SubSeq(v, 1, n)
            /\ \A i \in 1..n : req.token[i] # "_"
            /\ n = Len(v) \/ v[n + 1] = "_"
            /\ req.sign.md5 =
                 req.token \o <<"&", req.t, "&", "34839810", "&">> \o req.data

C8_Witness ==
    /\ pc = "sent" /\ attempts = 2 /\ req.token = <<"B">>
    /\ lastRecv.outcome = "nomarker" /\ lastRecv.setCookie /\ lastRecv.deduped
    /\ Len(jar) = 2

\* C9 (as claimed): wherever an attempt derives its token, the lookup
\* gives a value and not an error.
C9_TokenNeverFails ==
    (InOp /\ Top(stack).rc < Budget(op)) => ~current_token(jar).raised

\* the pieces of s between occurrences of the atom sep
RECURSIVE SplitOn(_, _)
SplitOn(s, sep) ==
    LET k == FirstIndex(s, sep, 1)
    IN  IF k > Len(s) THEN <<s>>
        ELSE <<SubSeq(s, 1, k - 1)>> \o SplitOn(SubSeq(s, k + 1, Len(s)), sep)

\* C10: a run of clear_duplicate_cookies hands the persistence step exactly
\* one string, and it is the jar as left by the run: one name=value piece
\* per cookie, in jar order, joined by "; ".
C10_PersistsDedupedJar ==
    lastDedupe.ran =>
        /\ Len(lastDedupe.persisted) = 1
        /\ LET str == lastDedupe.persisted[1]
               post == lastDedupe.post
               pieces == IF str = <<>> THEN <<>> ELSE SplitOn(str, "; ")
           IN  /\ Len(pieces) = Len(post)
               /\ \A i \in 1..Len(post) :
                     pieces[i] = <<post[i].name, "=">> \o post[i].value
        /\ jar = lastDedupe.post

C10_Witness ==
    /\ lastDedupe.ran
    /\ Len(lastDedupe.pre) = 3 /\ Len(lastDedupe.post) = 2

\* C11: an exception raised by the post or by reading the response never
\* reaches the caller: the frame's except clause takes it, sleeps and calls
\* again with retry_count + 1, so it costs one unit of the budget, and the
\* same holds for the handshake.
C11_ExceptionIsOneFailedAttempt ==
    [][ /\ (pc = "sent" /\ lastRecv'.outcome = "exception") =>
              /\ pc' = "backoff" /\ nextSite' = "handler"
              /\ result' = result /\ stack' = stack /\ sent' = sent
        /\ (pc = "backoff" /\ nextSite = "handler") =>
              /\ pc' = "entry" /\ result' = result /\ sent' = sent
              /\ Len(stack') = Len(stack)
              /\ Top(stack').rc = Top(stack).rc + 1
        /\ (pc = "login_sent" /\ pc' = "login_backoff") =>
              (lretry' = lretry /\ result' = result)
        /\ pc = "login_backoff" =>
              /\ pc' = "login_entry" /\ result' = result
              /\ lretry' = lretry + 1 ]_vars

C11_Witness ==
    /\ pc = "sent" /\ op = "get_item_info" /\ sent = 3
    /\ lastRecv.outcome = "exception" /\ Top(stack).rc = 2

\* C12 (as claimed): get_item_info never enters the handshake and never
\* exits the process, and whenever it ends its caller holds a response body
\* or the error value.
C12_ItemReturnsBodyOrError ==
    op = "get_item_info" =>
        /\ pc \notin LoginPcs \cup {"fatal"}
        /\ reauths = 0 /\ lattempts = 0
        /\ pc \in {"done", "raised"} => result.kind \in {"body", "error"}

\* C13 (as claimed): once the owning task was cancelled while a call waited
\* for a response or slept, that call sends no further request.
C13_NoAttemptAfterCancel ==
    [][cancelled => sent' <= sent]_vars

\* the bytes a canonical base64 input stands for
BytesOf(data) == b64decode(data).bytes
IsBase64Of(data) ==
    /\ clean(data) = data
    /\ b64decode(data).ok
    /\ b64encode(BytesOf(data)) = data

\* C14: decrypt gives its caller a value for every input str and never
\* raises.
C14_DecryptTotal ==
    (fn = "decrypt" /\ output.ran) => (~output.raised /\ output.text # <<>>)

C14_Witness ==
    /\ fn = "decrypt" /\ output.ran
    /\ input.data = b64encode(<<165, 104, 105>>)

\* C15: for the encoding of a nested structure of maps with str keys,
\* lists, strs, small ints, booleans and None, decrypt of its base64 gives
\* the JSON text of exactly that structure.
C15_RoundTrip ==
    (fn = "decrypt" /\ output.ran /\ input.of # <<>>) =>
        output = Returned(JsonOf(input.of[1], FALSE).text)

C15_Witness ==
    /\ fn = "decrypt" /\ output.ran /\ input.of = <<Example>>
    /\ Len(output.text) = 19

\* whether a result is the base64 tier's error for the input `data`
HasGarbage(data) ==
    \E i \in 1..Len(data) : data[i] \notin B64Alphabet \cup {PadChar}
IsBase64Error(o, data) ==
    /\ Len(o.text) = 9
    /\ o.text[2] = JWord("error", "")
    /\ o.text[4].a = "Base64 decode failed: " /\ o.text[4].e # "none"
    /\ o.text[6] = JWord("raw_data", "")
    /\ o.text[8] = JStr(data, TRUE)

\* C16 (as claimed): an input holding characters outside the base64
\* alphabet gives the base64 tier's error with the input as raw_data.
C16_GarbageGivesBase64Error ==
    (fn = "decrypt" /\ output.ran /\ HasGarbage(input.data)) =>
        IsBase64Error(output, input.data)

DataCount(data) == Cardinality({i \in 1..Len(data) : data[i] \in B64Alphabet})
PadsLast(data) ==
    \A i, k \in 1..Len(data) :
        (data[i] = PadChar /\ data[k] \in B64Alphabet) => k < i

\* C16 (amended): characters outside the alphabet are dropped.  An input
\* whose alphabet characters number 1 more than a multiple of 4, any "="
\* coming last, gives the base64 tier's error with the detail and the
\* whole input as raw_data; an input without any alphabet character does
\* not give that error; and the error, when given, carries the detail and
\* the whole input and comes from a count that is no multiple of 4.
C16_Base64ErrorWhenUndecodable ==
    (fn = "decrypt" /\ output.ran) =>
        /\ (DataCount(input.data) % 4 = 1 /\ PadsLast(input.data)) =>
              IsBase64Error(output, input.data)
        /\ DataCount(input.data) = 0 => ~IsBase64Error(output, input.data)
        /\ (Len(output.text) > 3 /\ output.text[4].a = "Base64 decode failed: ") =>
              (IsBase64Error(output, input.data) /\ DataCount(input.data) % 4 # 0)

C16_Witness ==
    /\ fn = "decrypt" /\ output.ran /\ input.data = <<33, 81>>
    /\ IsBase64Error(output, <<33, 81>>)

\* bytes that are the complete encoding of one value
IsEncoding(b) == decode_value(b, 1).ok /\ decode_value(b, 1).pos = Len(b) + 1

\* C17 (as claimed): valid base64 of UTF-8 text that is no tagged-binary
\* encoding gives the text tier's result holding that text.
C17_TextGivesTextTier ==
    (/\ fn = "decrypt" /\ output.ran /\ IsBase64Of(input.data)
     /\ BytesOf(input.data) # <<>> /\ Utf8Valid(BytesOf(input.data))
     /\ ~IsEncoding(BytesOf(input.data))) =>
        output = Returned(TextTier(BytesOf(input.data)))

\* C18 (as claimed): when decoding the bytes fails and they are not UTF-8,
\* decrypt gives the hex tier's result: the lowercase hex of the bytes and
\* the last error.
C18_FailureGivesHexTier ==
    (/\ fn = "decrypt" /\ output.ran /\ IsBase64Of(input.data)
     /\ ~decode_value(BytesOf(input.data), 1).ok
     /\ ~Utf8Valid(BytesOf(input.data))) =>
        /\ Len(output.text) = 9
        /\ output.text[2] = JWord("hex", "")
        /\ output.text[4] = JStr(HexOf(BytesOf(input.data)), TRUE)
        /\ output.text[6] = JWord("error", "")
        /\ output.text[8].a = "Decode failed: "

\* C19: the signature is the digest of token & t & appKey & data with the
\* fixed appKey "34839810": two calls with equal arguments sign the same
\* message, and two calls that differ in exactly one argument sign
\* different messages.
C19_SignDependsOnInputs ==
    (fn = "generate_sign" /\ output.ran) =>
        /\ output.text[1].md5 =
             input.a.token \o <<"&", input.a.t, "&", "34839810", "&">>
                 \o input.a.data
        /\ input.a = input.b => output.text[1] = output.text[2]
        /\ input.a # input.b => output.text[1] # output.text[2]

C19_Witness ==
    /\ fn = "generate_sign" /\ output.ran
    /\ input.a = [t |-> "1000", token |-> <<"A">>, data |-> <<"&", "A">>]
    /\ input.b = [t |-> "1000", token |-> <<"A", "&">>, data |-> <<"&", "A">>]
    /\ output.text[1] # output.text[2]

\* the entries of a cookie string that hold "=", and what stands before
\* and after the first one
HasEq(e) == \E k \in 1..Len(e) : e[k] = "="
NameOf(e) == SubSeq(e, 1, (CHOOSE k \in 1..Len(e) :
                              e[k] = "=" /\ \A m \in 1..(k - 1) : e[m] # "=") - 1)
ValueOf(e) == SubSeq(e, Len(NameOf(e)) + 2, Len(e))

\* C20: the mapping parsed from a string of "; "-separated entries has one
\* entry per name; its names are those of the entries holding "=", each
\* split at its first "="; a name's value is that of its last entry; and
\* entries without "=" leave no trace.
C20_CookiesParsed ==
    (fn = "trans_cookies" /\ output.ran) =>
        LET es == input.of
            m == output.text
            pairs == {i \in 1..Len(es) : HasEq(es[i])}
        IN  /\ \A i, k \in 1..Len(m) : m[i].name = m[k].name => i = k
            /\ {m[i].name : i \in 1..Len(m)} = {NameOf(es[i]) : i \in pairs}
            /\ \A i \in 1..Len(m) :
                   \E p \in pairs :
                       /\ NameOf(es[p]) = m[i].name
                       /\ ValueOf(es[p]) = m[i].value
                       /\ \A q \in pairs : NameOf(es[q]) = m[i].name => q <= p

C20_Witness ==
    /\ fn = "trans_cookies" /\ output.ran
    /\ input.of = << <<"a", "=", "1", "=", "2">>, <<"a">>, <<"a", "=", "2">> >>
    /\ output.text = <<[name |-> <<"a">>, value |-> <<"2">>]>>

\* C21 (as claimed): when get_token turns to hasLogin for the first time,
\* every attempt so far having failed, it has sent the token request 3
\* times.
C21_ThreeSendsBeforeReauth ==
    (/\ op = "get_token" /\ pc = "login_entry"
     /\ reauths = 1 /\ lattempts = 0 /\ lretry = 0 /\ listedOnly) => sent = 3

C23_BackoffAfterEveryFailure ==
    [][(/\ pc = "sent" /\ pc' # "sent"
        /\ lastRecv'.outcome \in {"nomarker", "notmapping", "exception"})
           => pc' = "backoff"]_vars

\* C24 (as claimed): the t of the request in flight, which is the
\* timestamp that was signed, is the clock's reading in milliseconds when
\* the attempt was built.
C24_TimestampIsNow ==
    pc = "sent" =>
        /\ req.sign = generate_sign(req.t, req.token, req.data)
        /\ req.t = req.builtAt

\* C25: wherever in a buffer a value is decoded from, a successful decode
\* leaves the cursor past its start and within the buffer; a str, bin,
\* array or map header that declares more than the buffer holds makes the
\* decode fail, a successful one gives as many bytes or elements as
\* declared; and a failed decode shows as decode()'s fallback, the base64
\* text of the buffer.
C25_CursorInBounds ==
    (fn = "decrypt" /\ output.ran /\ IsBase64Of(input.data)) =>
        LET b == BytesOf(input.data)
            n == Len(b)
            r == decode_value(b, 1)
            h == b[1]
        IN  /\ \A p \in 1..(n + 1) :
                   decode_value(b, p).ok =>
                       (decode_value(b, p).pos > p /\ decode_value(b, p).pos <= n + 1)
            /\ (n >= 1 /\ h >= 160 /\ h <= 191) =>
                   /\ n < 1 + (h - 160) => ~r.ok
                   /\ r.ok => (r.val.t = "str" /\ Len(r.val.s) = h - 160)
            /\ (n >= 1 /\ h >= 144 /\ h <= 159) =>
                   /\ n < 1 + (h - 144) => ~r.ok
                   /\ r.ok => (r.val.t = "list" /\ Len(r.val.xs) = h - 144)
            /\ (n >= 1 /\ h >= 128 /\ h <= 143) =>
                   /\ n < 1 + 2 * (h - 128) => ~r.ok
                   /\ r.ok => r.val.t = "dict"
            /\ (n >= 2 /\ h \in {196, 217}) =>
                   /\ n < 2 + b[2] => ~r.ok
                   /\ r.ok => Len(r.val.s) = b[2]
            /\ ~r.ok => output = Returned(<<JStr(b64encode(b), FALSE)>>)

C25_Witness ==
    /\ fn = "decrypt" /\ output.ran
    /\ input.data = b64encode(<<196, 1>>)
    /\ ~decode_value(<<196, 1>>, 1).ok
    /\ output = Returned(<<JStr(input.data, FALSE)>>)

\* C26: when the decoded bytes start with a complete value that json.dumps
\* can write, decrypt gives the JSON text of that value whatever bytes
\* follow it: the same result as for the value's own bytes alone.
C26_TrailingBytesIgnored ==
    (/\ fn = "decrypt" /\ output.ran /\ IsBase64Of(input.data)
     /\ decode_value(BytesOf(input.data), 1).ok
     /\ JsonOf(decode_value(BytesOf(input.data), 1).val, FALSE).ok) =>
        LET b == BytesOf(input.data)
            r == decode_value(b, 1)
        IN  /\ output = Returned(JsonOf(r.val, FALSE).text)
            /\ output = decrypt(b64encode(SubSeq(b, 1, r.pos - 1)))

C26_Witness ==
    /\ fn = "decrypt" /\ output.ran
    /\ input.data = b64encode(<<145, 1, 193>>)
    /\ output = decrypt(b64encode(<<145, 1>>))
    /\ Len(output.text) = 3

\* ================================================================= server
\* src/fastapi_server.py.  One event loop runs the request handlers, the
\* background runners and the session tasks; a step of the model is the
\* code a coroutine runs between two awaits.  srv.reg is active_sessions,
\* srv.runs[i] is the i-th call of run_xianyu_session together with the
\* task it creates (reg[s].task = i names that task), srv.stops are the
\* stop_session handlers suspended at line 213, srv.last is the request or
\* coroutine that took the last step and what it answered.

\* runners ever queued, and stop handlers suspended at once
MaxStarts == 2
MaxStops == 1

\* cookies from which XianyuLive extracts no user id
NoId == "none"

Call(o, sid, item, status, api) ==
    [op |-> o, sid |-> sid, item |-> item, status |-> status, api |-> api]

\* src/fastapi_server.py:207  not session["task"].done(): a task that was
\* asked to cancel is not done until CancelledError has been thrown into it
Undone(i) == srv.runs[i].task \in {"running", "cancelling"}
IsDone(i) == srv.runs[i].task \in {"finished", "failed", "cancelled"}

\* src/fastapi_server.py:161-172  the new entry, the queued runner
Started(sid) ==
    [srv EXCEPT !.reg[sid] = [status |-> "active", task |-> 0,
                              xianyu |-> FALSE],
                !.runs = Append(@, [sid |-> sid, pc |-> "queued",
                                    task |-> "none"]),
                !.last = Call("start_session", sid, "", "success", "none")]

\* start_session without the test of lines 148-155
start_session_unchecked(sid) ==
    /\ IF sid = NoId
       THEN srv' = [srv EXCEPT
                      !.last = Call("start_session", sid, "", "error", "none")]
       ELSE /\ Len(srv.runs) < MaxStarts
            /\ srv' = Started(sid)
    /\ UNCHANGED <<ctx, ai, clientVars>>

\* src/fastapi_server.py:110-193  the status "starting" of line 163 is
\* overwritten at line 172 before any await; the publish of line 176
\* changes nothing here, and the runner added at line 169 starts only after
\* the response
start_session(sid) ==
    /\ IF sid = NoId
       THEN srv' = [srv EXCEPT
                      !.last = Call("start_session", sid, "", "error", "none")]
       ELSE IF srv.reg[sid].status = "active"
       THEN srv' = [srv EXCEPT
                      !.last = Call("start_session", sid, "", "error", "none")]
       ELSE /\ Len(srv.runs) < MaxStarts
            /\ srv' = Started(sid)
    /\ UNCHANGED <<ctx, ai, clientVars>>

\* src/fastapi_server.py:82-96  the runner stores the instance and the new
\* task in the entry that active_sessions holds NOW for its id, then awaits
\* the task
run_xianyu_session(i) ==
    /\ srv.runs[i].pc = "queued"
    /\ LET sid == srv.runs[i].sid
       IN  srv' = [srv EXCEPT
                     !.reg[sid].xianyu = TRUE,
                     !.reg[sid].task = i,
                     !.runs[i].pc = "awaiting",
                     !.runs[i].task = "running",
                     !.last = Call("run_xianyu_session", sid, "", "none",
                                   "none")]
    /\ UNCHANGED <<ctx, ai, clientVars>>

\* XianyuLive.main() returns or raises by itself
main_ends(i) ==
    /\ srv.runs[i].task = "running"
    /\ \E how \in {"finished", "failed"} :
           srv' = [srv EXCEPT
                     !.runs[i].task = how,
                     !.last = Call("main", srv.runs[i].sid, "", how, "none")]
    /\ UNCHANGED <<ctx, ai, clientVars>>

\* CancelledError is thrown into main() at its await
main_cancelled(i) ==
    /\ srv.runs[i].task = "cancelling"
    /\ srv' = [srv EXCEPT
                 !.runs[i].task = "cancelled",
                 !.last = Call("main", srv.runs[i].sid, "", "cancelled",
                               "none")]
    /\ UNCHANGED <<ctx, ai, clientVars>>

\* src/fastapi_server.py:96-108  the await of line 96 returns or raises:
\* finally writes "stopped"; an exception of main() then reaches line 104,
\* which writes "error"
run_xianyu_session_end(i) ==
    /\ srv.runs[i].pc = "awaiting" /\ IsDone(i)
    /\ LET sid == srv.runs[i].sid
           st == IF srv.runs[i].task = "failed" THEN "error" ELSE "stopped"
       IN  srv' = [srv EXCEPT
                     !.reg[sid].status = st,
                     !.runs[i].pc = "finished",
                     !.last = Call("run_xianyu_session", sid, "", st, "none")]
    /\ UNCHANGED <<ctx, ai, clientVars>>

\* src/fastapi_server.py:195-222  up to the await of line 213, or to the
\* end when there is no task to wait for
stop_session_request(sid) ==
    /\ LET e == srv.reg[sid]
       IN  IF e.status = "absent"
           THEN srv' = [srv EXCEPT
                          !.last = Call("stop_session", sid, "", "404", "none")]
           ELSE IF e.task # 0 /\ Undone(e.task)
           THEN /\ Len(srv.stops) < MaxStops
                /\ srv' = [srv EXCEPT
                             !.runs[e.task].task = "cancelling",
                             !.stops = Append(@, [sid |-> sid,
                                                  task |-> e.task]),
                             !.last = Call("stop_session", sid, "", "waiting",
                                           "none")]
           ELSE srv' = [srv EXCEPT
                          !.reg[sid].status = "stopped",
                          !.last = Call("stop_session", sid, "", "success",
                                        "none")]
    /\ UNCHANGED <<ctx, ai, clientVars>>

Without(q, k) == SubSeq(q, 1, k - 1) \o SubSeq(q, k + 1, Len(q))

\* src/fastapi_server.py:213-231  the awaited task is done.  The runner
\* awaits the task from the moment it creates it, so the loop wakes the
\* runner first; line 222 writes to the entry active_sessions holds now.
stop_session_resume(k) ==
    /\ IsDone(srv.stops[k].task)
    /\ srv.runs[srv.stops[k].task].pc = "finished"
    /\ LET sid == srv.stops[k].sid
       IN  srv' = [srv EXCEPT
                     !.reg[sid].status = "stopped",
                     !.stops = Without(@, k),
                     !.last = Call("stop_session", sid, "", "success",
                                   "none")]
    /\ UNCHANGED <<ctx, ai, clientVars>>

NextServer ==
    \/ \E sid \in SessionIds \cup {NoId} : start_session(sid)
    \/ \E i \in 1..Len(srv.runs) : run_xianyu_session(i)
    \/ \E i \in 1..Len(srv.runs) : main_ends(i)
    \/ \E i \in 1..Len(srv.runs) : main_cancelled(i)
    \/ \E i \in 1..Len(srv.runs) : run_xianyu_session_end(i)
    \/ \E sid \in SessionIds : stop_session_request(sid)
    \/ \E k \in 1..Len(srv.stops) : stop_session_resume(k)

SpecServer == Init /\ [][NextServer]_vars

\* ------------------------------------------------------------- item store
\* What get_item_info of the client can give back: a response whose
\* data.itemDO is a mapping with a price that float() reads ("priced"),
\* with no soldPrice ("unpriced"), with a soldPrice that float() rejects
\* ("badprice"), an empty mapping ("empty"); a response without
\* data.itemDO ("noitem"); the {"error": ...} of the exhausted retries.
HasItemDO == {"priced", "unpriced", "badprice", "empty"}
ApiAnswers == HasItemDO \cup {"noitem", "error"}

\* src/context_manager.py:97-135  the row after save_item_info: float() of
\* line 108 raises inside the try, the except rolls back and returns
save_item_info(row, item_data) ==
    IF item_data = "badprice" THEN row ELSE item_data

\* src/fastapi_server.py:318  "if not item_info": None and {} alike
Truthy(row) == row \notin {"none", "empty"}

\* src/fastapi_server.py:289-342
get_item_detail(sid, item) ==
    LET e == srv.reg[sid]
    IN  /\ UNCHANGED <<ai, clientVars>>
        /\ IF e.status # "active" \/ ~e.xianyu
           THEN /\ srv' = [srv EXCEPT
                             !.last = Call("get_item_detail", sid, item,
                                           "error", "none")]
                /\ UNCHANGED ctx
           ELSE IF Truthy(ctx.items[item])
           THEN /\ srv' = [srv EXCEPT
                             !.last = Call("get_item_detail", sid, item,
                                           "success", "none")]
                /\ UNCHANGED ctx
           ELSE \E a \in ApiAnswers :
                    IF a \in HasItemDO
                    THEN /\ ctx' = [ctx EXCEPT
                                      !.items[item] = save_item_info(@, a)]
                         /\ srv' = [srv EXCEPT
                                      !.last = Call("get_item_detail", sid,
                                                    item, "success", a)]
                    ELSE /\ srv' = [srv EXCEPT
                                      !.last = Call("get_item_detail", sid,
                                                    item, "error", a)]
                         /\ UNCHANGED ctx

\* the sessions together with the item requests
NextItems ==
    \/ NextServer
    \/ \E sid \in SessionIds, item \in StoreIds : get_item_detail(sid, item)

SpecItems == Init /\ [][NextItems]_vars

\* C27: a start_session for an id whose entry has status "active" answers
\* with an error and changes neither the registry nor any runner or task.
C27_ActiveSessionNotRestarted ==
    [][(/\ srv'.last.op = "start_session"
        /\ srv'.last.sid \in SessionIds
        /\ srv.reg[srv'.last.sid].status = "active") =>
           /\ srv'.last.status = "error"
           /\ srv'.reg = srv.reg
           /\ srv'.runs = srv.runs
           /\ srv'.stops = srv.stops]_vars

C27_Witness ==
    /\ srv.last.op = "start_session" /\ srv.last.status = "error"
    /\ srv.last.sid \in SessionIds
    /\ srv.reg[srv.last.sid].status = "active"
    /\ srv.reg[srv.last.sid].task # 0
    /\ srv.runs[srv.reg[srv.last.sid].task].task = "running"

\* C28: for every session id at most one task is running, and an id whose
\* status is "stopped" has no running task.
TasksOf(sid) ==
    {i \in 1..Len(srv.runs) : srv.runs[i].sid = sid /\ Undone(i)}

C28_OneTaskNoneWhenStopped ==
    \A sid \in SessionIds :
        /\ Cardinality(TasksOf(sid)) <= 1
        /\ srv.reg[sid].status = "stopped" => TasksOf(sid) = {}

\* C29: a get_item_detail step calls the platform API only for a session
\* that is active and initialised and an item the store has no entry for;
\* when the API answers with data.itemDO the answer is success and the
\* store then holds an entry that the next get_item_detail answers from;
\* when the API answers without data.itemDO the answer is an error and the
\* store is unchanged.
C29_CacheFirst ==
    [][(srv'.last.op = "get_item_detail" /\ srv'.last.api # "none") =>
           LET sid == srv'.last.sid
               item == srv'.last.item
           IN  /\ srv.reg[sid].status = "active" /\ srv.reg[sid].xianyu
               /\ ctx.items[item] = "none"
               /\ srv'.last.api \in HasItemDO =>
                      /\ srv'.last.status = "success"
                      /\ Truthy(ctx'.items[item])
               /\ srv'.last.api \notin HasItemDO =>
                      /\ srv'.last.status = "error"
                      /\ ctx' = ctx]_vars

\* ========================================================== context store
\* src/context_manager.py.  ctx.messages is the messages table: a row is
\* its AUTOINCREMENT id, its chat_id and its timestamp; ctx.next_id is the
\* id the next INSERT gets; ctx.clock is the last reading of
\* datetime.now(); ctx.added[i] is the chat of the message that got id i,
\* deleted since or not; ctx.counts is the chat_bargain_counts table (a
\* chat without a row has 0) and ctx.incs[c] the number of increments that
\* were committed for c; ctx.got is what the last call returned.

\* max_history of the constructor (100 by default), and the number of
\* messages ever added
max_history == 2
MaxMessages == 4

RowsOf(rows, chat) == {r \in rows : r.chat = chat}

\* src/context_manager.py:188-196  ORDER BY timestamp DESC LIMIT n, 1 gives
\* the row that n rows precede in that order; rows of equal timestamp come
\* in an order SQLite is free to choose, so the row is any r with at most n
\* rows strictly newer and more than n rows at least as new
RowAtOffset(rows, n) ==
    {r \in rows :
        /\ Cardinality({q \in rows : q.ts > r.ts}) <= n
        /\ Cardinality({q \in rows : q.ts >= r.ts}) >= n + 1}

\* src/context_manager.py:198-203  DELETE ... WHERE chat_id = ? AND id < ?
DeleteBefore(rows, chat, id) ==
    {r \in rows : ~(r.chat = chat /\ r.id < id)}

\* src/context_manager.py:166-210  two calls may read the same time
add_message_by_chat(chat) ==
    /\ ctx.next_id <= MaxMessages
    /\ \E now \in {ctx.clock, ctx.clock + 1} :
         LET row == [id |-> ctx.next_id, chat |-> chat, ts |-> now]
             all == ctx.messages \cup {row}
             oldest == RowAtOffset(RowsOf(all, chat), max_history)
         IN  \E kept \in IF oldest = {}
                         THEN {all}
                         ELSE {DeleteBefore(all, chat, r.id) : r \in oldest} :
                 ctx' = [ctx EXCEPT !.messages = kept,
                                    !.next_id = @ + 1,
                                    !.clock = now,
                                    !.added = Append(@, chat),
                                    !.got = NoGot]
    /\ UNCHANGED <<srv, ai, clientVars>>

\* the increments made for one chat
MaxCount == 2

\* src/context_manager.py:224-232  ORDER BY timestamp ASC LIMIT n: the
\* first n rows (all of them when there are fewer) of an order that never
\* steps back in time; rows of equal timestamp come in any order.  These
\* are the sequences of distinct rows in which time never steps back and
\* which leave out no row older than one they hold.
Oldest(rows, n) ==
    LET k == IF Cardinality(rows) < n THEN Cardinality(rows) ELSE n
    IN  {q \in [1..k -> rows] :
            /\ \A i, j \in 1..k : i < j => q[i] # q[j] /\ q[i].ts <= q[j].ts
            /\ \A r \in rows :
                   (\A i \in 1..k : q[i] # r) =>
                       \A i \in 1..k : q[i].ts <= r.ts}

\* src/context_manager.py:284-309
get_bargain_count(chat) == ctx.counts[chat]

get_bargain_count_by_chat(chat) ==
    /\ ctx' = [ctx EXCEPT !.got = [NoGot EXCEPT
                                     !.op = "get_bargain_count_by_chat",
                                     !.chat = chat,
                                     !.count = get_bargain_count(chat)]]
    /\ UNCHANGED <<srv, ai, clientVars>>

\* src/context_manager.py:212-252  the ids of the returned messages, and
\* whether the system entry with the bargain count follows them
get_context_by_chat(chat) ==
    /\ \E q \in Oldest(RowsOf(ctx.messages, chat), max_history) :
           ctx' = [ctx EXCEPT !.got =
                     [op |-> "get_context_by_chat", chat |-> chat,
                      messages |-> [i \in DOMAIN q |-> q[i].id],
                      count |-> get_bargain_count(chat),
                      system |-> get_bargain_count(chat) > 0]]
    /\ UNCHANGED <<srv, ai, clientVars>>

\* an increment that replaces the count instead of adding to it
increment_overwriting(chat) ==
    /\ ctx.incs[chat] < MaxCount
    /\ \E ok \in BOOLEAN :
           ctx' = IF ok
                  THEN [ctx EXCEPT !.counts[chat] = 1,
                                   !.incs[chat] = @ + 1,
                                   !.got = [NoGot EXCEPT
                                              !.op = "increment", !.chat = chat,
                                              !.count = 1]]
                  ELSE [ctx EXCEPT !.got = [NoGot EXCEPT
                                              !.op = "increment", !.chat = chat]]
    /\ UNCHANGED <<srv, ai, clientVars>>

\* src/context_manager.py:254-282  the UPSERT commits, or an sqlite3 error
\* is caught and rolled back
increment_bargain_count_by_chat(chat) ==
    /\ ctx.incs[chat] < MaxCount
    /\ \E ok \in BOOLEAN :
           ctx' = IF ok
                  THEN [ctx EXCEPT !.counts[chat] = @ + 1,
                                   !.incs[chat] = @ + 1,
                                   !.got = [NoGot EXCEPT
                                              !.op = "increment", !.chat = chat,
                                              !.count = 1]]
                  ELSE [ctx EXCEPT !.got = [NoGot EXCEPT
                                              !.op = "increment", !.chat = chat]]
    /\ UNCHANGED <<srv, ai, clientVars>>

NextContext ==
    \/ \E chat \in ChatIds : add_message_by_chat(chat)
    \/ \E chat \in ChatIds : get_context_by_chat(chat)
    \/ \E chat \in ChatIds : increment_bargain_count_by_chat(chat)
    \/ \E chat \in ChatIds : get_bargain_count_by_chat(chat)

SpecContext == Init /\ [][NextContext]_vars

\* C30: every chat has at most max_history stored messages, and they are
\* the last ones added to it: no deleted message of the chat has a larger
\* id than a stored one.
C30_AtMostMaxHistory ==
    \A chat \in ChatIds :
        /\ Cardinality(RowsOf(ctx.messages, chat)) <= max_history
        /\ \A r \in RowsOf(ctx.messages, chat) :
               \A i \in 1..Len(ctx.added) :
                   (ctx.added[i] = chat /\ i > r.id) =>
                       \E q \in ctx.messages : q.id = i

\* C31: what get_context_by_chat returns is in chronological order and
\* holds the message that was added last to the chat.
LastAdded(chat) ==
    CHOOSE i \in 1..Len(ctx.added) :
        /\ ctx.added[i] = chat
        /\ \A j \in 1..Len(ctx.added) : ctx.added[j] = chat => j <= i

TsOf(id) == (CHOOSE r \in ctx.messages : r.id = id).ts

C31_ContextHasNewest ==
    ctx.got.op = "get_context_by_chat" =>
        LET m == ctx.got.messages
        IN  /\ \A i, j \in DOMAIN m : i < j => TsOf(m[i]) <= TsOf(m[j])
            /\ (\E i \in 1..Len(ctx.added) : ctx.added[i] = ctx.got.chat) =>
                   \E i \in DOMAIN m : m[i] = LastAdded(ctx.got.chat)

MaxQueued == 3

\* What the producer puts on a customer queue: the text of a JSON mapping
\* with its chat_id, sender_id and item_id ("null" where the key is
\* missing), the text of a JSON list, or text that is no JSON.
Mapping(c, u, i) ==
    [form |-> "mapping", chat_id |-> c, sender_id |-> u, item_id |-> i]
Messages ==
    {Mapping("c1", "b1", "item1"), Mapping("c2", "b2", "item2"),
     Mapping("null", "null", "null"),
     [form |-> "list", chat_id |-> "null", sender_id |-> "null",
      item_id |-> "null"],
     [form |-> "invalid", chat_id |-> "null", sender_id |-> "null",
      item_id |-> "null"]}

\* process_message with receiver_id taken from chat_id
process_message_to_chat(m) ==
    IF m.form = "mapping"
    THEN <<[chat_id |-> m.chat_id, receiver_id |-> m.chat_id,
            item_id |-> m.item_id]>>
    ELSE <<>>

\* src/ai_service.py:66-119  the reply (reply_content and processed_time
\* left out) as a one-element sequence, or <<>> for None: json.loads
\* raises JSONDecodeError on text that is no JSON, message.get raises
\* AttributeError on a list, both are caught
process_message(m) ==
    IF m.form = "mapping"
    THEN <<[chat_id |-> m.chat_id, receiver_id |-> m.sender_id,
            item_id |-> m.item_id]>>
    ELSE <<>>

\* the producer (another process) appends to customer:message:{s}
customer_sends(s, m) ==
    /\ ai.queued < MaxQueued
    /\ ai' = [ai EXCEPT !.customer[s] = Append(@, m), !.queued = @ + 1]
    /\ UNCHANGED <<srv, ctx, clientVars>>

\* src/ai_service.py:161-174  run() with Redis reachable: every listener
\* task is created and reaches its first blpop
run ==
    /\ ~ai.running
    /\ \A s \in Sellers : ai.listener[s].pc = "none"
    /\ ai' = [ai EXCEPT !.running = TRUE,
                        !.listener = [s \in Sellers |->
                                         [pc |-> "blpop", reply |-> <<>>]]]
    /\ UNCHANGED <<srv, ctx, clientVars>>

\* src/ai_service.py:133-143  blpop returns the head of the queue;
\* process_message runs to its sleep, or returns None at once and the loop
\* goes back to blpop.  (A timeout on an empty queue changes nothing.)
blpop(s) ==
    /\ ai.listener[s].pc = "blpop"
    /\ ai.customer[s] # <<>>
    /\ LET m == Head(ai.customer[s])
           r == process_message(m)
       IN  ai' = [ai EXCEPT
                    !.customer[s] = Tail(@),
                    !.popped[s] = Append(@, m),
                    !.listener[s] = IF r = <<>>
                                    THEN [pc |-> "blpop", reply |-> <<>>]
                                    ELSE [pc |-> "process", reply |-> r]]
    /\ UNCHANGED <<srv, ctx, clientVars>>

\* src/ai_service.py:135,151-155  blpop raises (Redis unreachable)
blpop_fails(s) ==
    /\ ai.listener[s].pc = "blpop"
    /\ ai' = [ai EXCEPT !.listener[s] = [pc |-> "sleep", reply |-> <<>>]]
    /\ UNCHANGED <<srv, ctx, clientVars>>

\* src/ai_service.py:108-111,143-146  the sleep ends, the reply is
\* returned and rpush is called
process_done(s) ==
    /\ ai.listener[s].pc = "process"
    /\ ai' = [ai EXCEPT !.listener[s].pc = "push"]
    /\ UNCHANGED <<srv, ctx, clientVars>>

\* src/ai_service.py:146-147
rpush(s) ==
    /\ ai.listener[s].pc = "push"
    /\ ai' = [ai EXCEPT
                !.pushed[s] = @ \o ai.listener[s].reply,
                !.listener[s] = [pc |-> "blpop", reply |-> <<>>]]
    /\ UNCHANGED <<srv, ctx, clientVars>>

\* src/ai_service.py:146,151-155  rpush raises: the error is logged and
\* the listener sleeps, its reply dropped
rpush_fails(s) ==
    /\ ai.listener[s].pc = "push"
    /\ ai' = [ai EXCEPT !.listener[s] = [pc |-> "sleep", reply |-> <<>>]]
    /\ UNCHANGED <<srv, ctx, clientVars>>

\* src/ai_service.py:155,133  the sleep of the error branch ends
sleep_done(s) ==
    /\ ai.listener[s].pc = "sleep"
    /\ ai' = [ai EXCEPT !.listener[s].pc = "blpop"]
    /\ UNCHANGED <<srv, ctx, clientVars>>

\* src/ai_service.py:148-150,175-185  run() is cancelled: gather cancels
\* every listener, CancelledError is thrown at the await each one waits
\* in, and none runs anything else before.  A listener cancelled inside
\* rpush may or may not have had its command carried out.
run_cancelled ==
    /\ ai.running
    /\ \E done \in SUBSET {s \in Sellers : ai.listener[s].pc = "push"} :
           ai' = [ai EXCEPT
                    !.running = FALSE,
                    !.pushed = [s \in Sellers |->
                                  IF s \in done
                                  THEN @[s] \o ai.listener[s].reply
                                  ELSE @[s]],
                    !.listener = [s \in Sellers |->
                                     [pc |-> "stopped", reply |-> <<>>]]]
    /\ UNCHANGED <<srv, ctx, clientVars>>

NextService ==
    \/ \E s \in Sellers, m \in Messages : customer_sends(s, m)
    \/ run
    \/ \E s \in Sellers : blpop(s)
    \/ \E s \in Sellers : blpop_fails(s)
    \/ \E s \in Sellers : process_done(s)
    \/ \E s \in Sellers : rpush(s)
    \/ \E s \in Sellers : rpush_fails(s)
    \/ \E s \in Sellers : sleep_done(s)
    \/ run_cancelled

SpecService == Init /\ [][NextService]_vars

\* the replies r are, in order, the replies to different messages of p
RECURSIVE RepliesTo(_, _)
RepliesTo(r, p) ==
    IF r = <<>> THEN TRUE
    ELSE IF p = <<>> THEN FALSE
    ELSE IF /\ Head(p).form = "mapping"
            /\ Head(r).chat_id = Head(p).chat_id
            /\ Head(r).item_id = Head(p).item_id
            /\ Head(r).receiver_id = Head(p).sender_id
         THEN RepliesTo(Tail(r), Tail(p))
         ELSE RepliesTo(r, Tail(p))

\* the messages of p that are JSON mappings
Answerable(p) == SelectSeq(p, LAMBDA m : m.form = "mapping")

\* C33: the replies pushed to a seller's response queue are, in the order
\* of the pops, replies to different messages popped from that seller's
\* customer queue, each with the chat_id and item_id of its message and
\* the sender as receiver; text that is no JSON gets no reply, and while
\* the service runs every listener is still in its loop.
C33_RepliesFromPopped ==
    \A s \in Sellers :
        /\ RepliesTo(ai.pushed[s] \o ai.listener[s].reply, ai.popped[s])
        /\ Len(ai.pushed[s]) <= Len(Answerable(ai.popped[s]))
        /\ ai.running =>
               ai.listener[s].pc \in {"blpop", "process", "push", "sleep"}

C33_Witness ==
    /\ ai.running
    /\ Len(ai.popped["s1"]) = 3 /\ Len(ai.pushed["s1"]) = 2
    /\ ai.popped["s1"][1].form = "mapping"
    /\ ai.popped["s1"][2].form = "invalid"
    /\ ai.popped["s1"][3].form = "mapping"
    /\ ai.popped["s1"][1] # ai.popped["s1"][3]
    /\ ai.listener["s1"].pc = "blpop"

\* C34: a JSON mapping popped from a seller's customer queue has its reply
\* on the response queue or is still in the hands of the listener, which
\* will push it.
C34_NoMessageLost ==
    \A s \in Sellers :
        Len(Answerable(ai.popped[s])) =
            Len(ai.pushed[s]) + Len(ai.listener[s].reply)

====
